---------------------------- MODULE Spec2Model ----------------------------
(***************************************************************************)
(* Model of the pipeline execution engine (src/shell_engine.py) and of the *)
(* remote tool callers it is wired to (src/mcp_client.py).                 *)
(*                                                                         *)
(* Text is a sequence of symbols.  A symbol is one character ("\n", " ")   *)
(* or one lexical token of a JSON text ("{", "}", an object member, an     *)
(* array, a non-JSON word).  Messages are sequences of string tokens, so   *)
(* that "the message contains ..." is a sub-sequence test.                 *)
(***************************************************************************)
EXTENDS Integers, Sequences, FiniteSets, TLC

(***************************************************************************)
(* Bounds of the model.                                                    *)
(***************************************************************************)
MaxStages == 2      \* longest pipeline explored
MaxLines == 2       \* most lines of an upstream text handed to tool_stage directly
MaxChunks == 2      \* most chunks that upstream text is delivered in
MaxSpawns == 3      \* most child processes spawned in one run
MaxCalls == 3       \* most tool calls issued in one run

(***************************************************************************)
(* Symbols and text.                                                       *)
(***************************************************************************)
NL == "\n"
SP == " "
Whitespace == {NL, SP}
\* object members: a token "k:u" stands for the member  "k": <u>
Members == {"k:u", "j:u"}
MemberKey(m) == IF m = "k:u" THEN "k" ELSE "j"
Symbols == {NL, SP, "{", "}", "[]", "x"} \cup Members

Min(a, b) == IF a < b THEN a ELSE b

\* str(int)
NumStr(n) == IF n = 0 THEN "0" ELSE <<"1", "2", "3", "4", "5", "6", "7", "8", "9">>[n]

RECURSIVE LStrip(_)
LStrip(s) == IF s # <<>> /\ Head(s) \in Whitespace THEN LStrip(Tail(s)) ELSE s

RECURSIVE RStrip(_)
RStrip(s) ==
    IF s # <<>> /\ s[Len(s)] \in Whitespace THEN RStrip(SubSeq(s, 1, Len(s) - 1)) ELSE s

\* str.strip()
Strip(s) == RStrip(LStrip(s))

\* "".join(chunks)
RECURSIVE Concat(_)
Concat(ss) == IF ss = <<>> THEN <<>> ELSE Head(ss) \o Concat(Tail(ss))

\* sep.join(parts)
RECURSIVE Join(_, _)
Join(sep, parts) ==
    IF parts = <<>> THEN <<>>
    ELSE IF Len(parts) = 1 THEN parts[1]
    ELSE parts[1] \o sep \o Join(sep, Tail(parts))

\* position of the first "\n" of s, 0 when there is none
RECURSIVE FirstNL(_, _)
FirstNL(s, i) == IF i > Len(s) THEN 0 ELSE IF s[i] = NL THEN i ELSE FirstNL(s, i + 1)

\* str.splitlines(keepends=True)
RECURSIVE SplitLinesKeep(_)
SplitLinesKeep(s) ==
    IF s = <<>> THEN <<>>
    ELSE LET p == FirstNL(s, 1) IN
         IF p = 0 THEN <<s>>
         ELSE <<SubSeq(s, 1, p)>> \o SplitLinesKeep(SubSeq(s, p + 1, Len(s)))

\* s.split("\n")
RECURSIVE SplitNL(_)
SplitNL(s) ==
    LET p == FirstNL(s, 1) IN
    IF p = 0 THEN <<s>>
    ELSE <<SubSeq(s, 1, p - 1)>> \o SplitNL(SubSeq(s, p + 1, Len(s)))

\* sub is a contiguous part of s
Contains(s, sub) ==
    \E i \in 1..(Len(s) - Len(sub) + 1) : SubSeq(s, i, i + Len(sub) - 1) = sub

\* s[:100]; a symbol counts as one character
Prefix100(s) == SubSeq(s, 1, Min(100, Len(s)))

(***************************************************************************)
(* JSON values and dictionaries.  A dictionary is a function from keys to  *)
(* values; a value is a record [t, v]: t = "json" for a decoded JSON value *)
(* whose text is v, t = "str" for a Python string whose characters are v.  *)
(***************************************************************************)
JsonVal(v) == [t |-> "json", v |-> v]
StrVal(v) == [t |-> "str", v |-> v]
ValU == JsonVal(<<"u">>)      \* the value of every member of an upstream object
ValA == JsonVal(<<"a">>)      \* the value of every caller-provided argument
EmptyDict == [k \in {} |-> ValU]

\* {**U, **A}
MergeUWins(U, A) ==
    [k \in DOMAIN U \cup DOMAIN A |-> IF k \in DOMAIN U THEN U[k] ELSE A[k]]
Merge(U, A) ==
    [k \in DOMAIN U \cup DOMAIN A |-> IF k \in DOMAIN A THEN A[k] ELSE U[k]]

\* {**args, "input": v}
WithInput(args, v) ==
    [k \in DOMAIN args \cup {"input"} |-> IF k = "input" THEN v ELSE args[k]]

\* the members between the braces of an object text, whitespace dropped
ObjectOf(inner) ==
    [k \in {MemberKey(inner[i]) : i \in {j \in 1..Len(inner) : inner[j] \in Members}}
        |-> ValU]

\* json.loads(s): ok = FALSE is JSONDecodeError
JsonLoads(s) ==
    LET t == Strip(s)
        inner == SubSeq(t, 2, Len(t) - 1)
    IN  IF t = <<"[]">>
            THEN [ok |-> TRUE, isDict |-> FALSE, dict |-> EmptyDict, val |-> JsonVal(t)]
        ELSE IF /\ Len(t) >= 2
                /\ t[1] = "{"
                /\ t[Len(t)] = "}"
                /\ \A i \in 1..Len(inner) : inner[i] \in Members \cup Whitespace
            THEN [ok |-> TRUE, isDict |-> TRUE, dict |-> ObjectOf(inner), val |-> JsonVal(t)]
        ELSE [ok |-> FALSE, isDict |-> FALSE, dict |-> EmptyDict, val |-> JsonVal(<<>>)]


(***************************************************************************)
(* Tool results.  A result either has a content sequence, whose items may  *)
(* carry a text payload, or it has none and only str(result) is usable.    *)
(***************************************************************************)
TextItem(t) == [hasText |-> TRUE, text |-> t]
OtherItem == [hasText |-> FALSE, text |-> <<>>]
ResultOf(hasContent, content, repr) ==
    [hasContent |-> hasContent, content |-> content, repr |-> repr]

TextA == <<"{", "k:u", "}">>
TextB == <<"{", "}", NL, "x">>
TextC == <<"{", "}", NL, "x", NL>>
ToolResults ==
    { ResultOf(FALSE, <<>>, <<"r0">>),
      ResultOf(TRUE, <<>>, <<"r1">>),
      ResultOf(TRUE, <<TextItem(TextA)>>, <<"r2">>),
      ResultOf(TRUE, <<TextItem(TextA), TextItem(TextB)>>, <<"r3">>),
      ResultOf(TRUE, <<OtherItem, TextItem(TextC)>>, <<"r4">>) }

\* the text payloads of the content items, in order
RECURSIVE ItemTexts(_)
ItemTexts(content) ==
    IF content = <<>> THEN <<>>
    ELSE (IF Head(content).hasText THEN <<Head(content).text>> ELSE <<>>)
            \o ItemTexts(Tail(content))

\* what one result adds to `results` in for_each mode
ExtractForEach(result) ==
    IF result.hasContent THEN ItemTexts(result.content) ELSE <<result.repr>>

\* what the single call's result becomes in normal mode
ExtractSingle(result) ==
    IF result.hasContent /\ ItemTexts(result.content) # <<>>
        THEN ItemTexts(result.content)[1]
        ELSE result.repr

(***************************************************************************)
(* tool_stage, for_each mode: framing the upstream into lines and          *)
(* building the call arguments.                                            *)
(***************************************************************************)
InvalidJsonMsg(n, line) ==
    <<"Line ", NumStr(n), ": ", "Invalid JSON in for_each mode. ",
      "Tools with for_each require JSONL input (one JSON object per line). ",
      "Got: ">> \o Prefix100(line) \o
    <<"... ", "Use jq to structure your data correctly. ",
      "For example, if the tool needs 'url' parameter: jq -c '.[] | {url: .}'">>

NotObjectMsg(n, dumped) ==
    <<"Line ", NumStr(n), ": ", "Expected JSON object, got ", "list", ". ",
      "Tools require parameter names. Got: ">> \o Prefix100(dumped) \o
    <<"... ", "Transform your data into objects, e.g.: jq -c '{param_name: .}'">>

\* one non-blank line: its call arguments, or the error it raises
ParseLine(line, n, args) ==
    LET p == JsonLoads(line) IN
    IF ~p.ok
        THEN [failed |-> TRUE, msg |-> InvalidJsonMsg(n, line), call_args |-> EmptyDict]
    ELSE IF p.isDict
        THEN [failed |-> FALSE, msg |-> <<>>, call_args |-> Merge(p.dict, args)]
    ELSE [failed |-> TRUE, msg |-> NotObjectMsg(n, p.val.v), call_args |-> EmptyDict]

\* all_call_args.append((line_num, call_args))
PrependCall(list, n, call_args) == <<[line_num |-> n, call_args |-> call_args]>> \o list
AppendCall(list, n, call_args) == Append(list, [line_num |-> n, call_args |-> call_args])

\* line_num += 1
SkipLineNum(n) == n
NextLineNum(n) == n + 1

\* while "\n" in buffer: ...   st = [buffer, line_num, all_call_args, failed, msg]
RECURSIVE SplitBuffer(_, _)
SplitBuffer(st, args) ==
    LET p == FirstNL(st.buffer, 1)
        line == SubSeq(st.buffer, 1, p - 1)
        rest == SubSeq(st.buffer, p + 1, Len(st.buffer))
        n == NextLineNum(st.line_num)
        r == ParseLine(line, n, args)
    IN  IF p = 0 THEN st
        ELSE IF Strip(line) = <<>>
            THEN SplitBuffer([st EXCEPT !.buffer = rest, !.line_num = n], args)
        ELSE IF r.failed
            THEN [st EXCEPT !.buffer = rest, !.line_num = n,
                            !.failed = TRUE, !.msg = r.msg]
        ELSE SplitBuffer([st EXCEPT !.buffer = rest, !.line_num = n,
                             !.all_call_args = AppendCall(@, n, r.call_args)], args)

\* if buffer.strip(): ...   the last line, which has no newline after it
DropTail(st, args) == st
TailBuffer(st, args) ==
    LET n == NextLineNum(st.line_num)
        r == ParseLine(st.buffer, n, args)
    IN  IF Strip(st.buffer) = <<>> THEN st
        ELSE IF r.failed
            THEN [st EXCEPT !.line_num = n, !.failed = TRUE, !.msg = r.msg]
        ELSE [st EXCEPT !.line_num = n,
                        !.all_call_args = AppendCall(@, n, r.call_args)]

(***************************************************************************)
(* tool_stage, normal mode: the arguments of the single call.              *)
(***************************************************************************)
SingleCallArgsOverwrite(input_data_, args) ==
    LET p == JsonLoads(input_data_) IN
    IF input_data_ = <<>> THEN args
    ELSE IF p.ok /\ p.isDict THEN Merge(p.dict, args)
    ELSE IF p.ok THEN WithInput(args, p.val)
    ELSE WithInput(args, StrVal(input_data_))
SingleCallArgs(input_data_, args) ==
    LET p == JsonLoads(input_data_) IN
    IF input_data_ = <<>> THEN args
    ELSE IF p.ok /\ p.isDict THEN Merge(p.dict, args)
    ELSE IF "input" \in DOMAIN args THEN args
    ELSE IF p.ok THEN WithInput(args, p.val)
    ELSE WithInput(args, StrVal(input_data_))


(***************************************************************************)
(* Exceptions are chains of messages, the outermost first: raising         *)
(* "X from e" puts X's message in front of e's chain.                      *)
(***************************************************************************)
\* the loop over __cause__: the message of the root cause
UnwrapOuter(chain) == chain[1]
UnwrapRoot(chain) == chain[Len(chain)]

\* json.dumps(call_args, indent=2), keys in a fixed order
DumpArgs(d) ==
    <<"{">> \o (IF "j" \in DOMAIN d THEN <<"j:">> \o d["j"].v ELSE <<>>)
            \o (IF "k" \in DOMAIN d THEN <<"k:">> \o d["k"].v ELSE <<>>)
            \o (IF "input" \in DOMAIN d THEN <<"input:">> \o d["input"].v ELSE <<>>)
            \o <<"}">>

\* what a remote call can raise: an RPC error, or asyncio.TimeoutError whose
\* str() is empty
CallFailures == { <<"rpc error">>, <<"">> }

\* the entry of get_workloads() for the workload, found = FALSE when the
\* list has no entry of that name
Workload(found, status, url, proxy_mode, transport_type) ==
    [found |-> found, status |-> status, url |-> url, proxy_mode |-> proxy_mode,
     transport_type |-> transport_type]
RunningSse == Workload(TRUE, "running", <<"http://", "w">>, "sse", "")
Workloads ==
    { RunningSse,
      Workload(TRUE, "running", <<"http://", "w">>, "streamable-http", ""),
      Workload(TRUE, "running", <<"http://", "w">>, "", "streamable-http"),
      Workload(TRUE, "running", <<"http://", "w">>, "stdio", ""),
      Workload(TRUE, "running", <<>>, "sse", ""),
      Workload(TRUE, "stopped", <<"http://", "w">>, "sse", ""),
      Workload(FALSE, "", <<>>, "", "") }

\* batch_call_tool before it connects: the checks on the workload and the
\* choice of the transport
ResolveWorkloadUrlFirst(w, name) ==
    IF ~w.found
        THEN [ok |-> FALSE, msg |-> <<"Workload '", name, "' not found">>]
    ELSE IF w.url = <<>>
        THEN [ok |-> FALSE, msg |-> <<"No URL provided for workload '", name, "'">>]
    ELSE IF w.status # "running"
        THEN [ok |-> FALSE,
              msg |-> <<"Workload '", name, "' is not running (status: ", w.status, ")">>]
    ELSE IF w.proxy_mode = "sse"
            \/ w.proxy_mode = "streamable-http" \/ w.transport_type = "streamable-http"
        THEN [ok |-> TRUE, msg |-> <<>>]
    ELSE [ok |-> FALSE,
          msg |-> <<"Transport/proxy mode '",
                    IF w.proxy_mode # "" THEN w.proxy_mode ELSE w.transport_type,
                    "' not supported">>]
ResolveWorkload(w, name) ==
    IF ~w.found
        THEN [ok |-> FALSE, msg |-> <<"Workload '", name, "' not found">>]
    ELSE IF w.status # "running"
        THEN [ok |-> FALSE,
              msg |-> <<"Workload '", name, "' is not running (status: ", w.status, ")">>]
    ELSE IF w.url = <<>>
        THEN [ok |-> FALSE, msg |-> <<"No URL provided for workload '", name, "'">>]
    ELSE IF w.proxy_mode = "sse"
            \/ w.proxy_mode = "streamable-http" \/ w.transport_type = "streamable-http"
        THEN [ok |-> TRUE, msg |-> <<>>]
    ELSE [ok |-> FALSE,
          msg |-> <<"Transport/proxy mode '",
                    IF w.proxy_mode # "" THEN w.proxy_mode ELSE w.transport_type,
                    "' not supported">>]

NoBatch == [opened |-> 0, open |-> FALSE, inflight |-> 0, chain |-> <<>>]

\* the text payloads of the results gathered so far
RECURSIVE ResultTexts(_)
ResultTexts(rs) ==
    IF rs = <<>> THEN <<>> ELSE ExtractForEach(Head(rs)) \o ResultTexts(Tail(rs))

\* batch_call_tool.execute_calls: the message raised when call k of total fails
BatchProgressMsgZeroBased(k, total, done, e) ==
    <<"Batch tool call failed at item ", NumStr(k - 1), " of ", NumStr(total), ".", NL,
      "Completed: ", NumStr(Len(done)), " successful, ", NumStr(total - (k - 1)),
      " pending.", NL, "Error: ">> \o e
BatchProgressMsg(k, total, done, e) ==
    <<"Batch tool call failed at item ", NumStr(k), " of ", NumStr(total), ".", NL,
      "Completed: ", NumStr(Len(done)), " successful, ", NumStr(total - (k - 1) - 1),
      " pending.", NL, "Error: ">> \o e \o
    (IF ResultTexts(done) # <<>>
        THEN <<NL, "Partial results from successful calls:", NL>>
                \o Join(<<NL>>, ResultTexts(done))
        ELSE <<>>)

\* tool_stage, batch path: the RuntimeError raised around a failed batch
BatchFailedMsg(server, tool, chain) ==
    <<"Batch tool call failed for ", server, "/", tool, ". ", "Error: ">>
        \o UnwrapRoot(chain)

\* tool_stage, fallback path: the RuntimeError raised around a failed call
LineFailedMsg(n, server, tool, call_args, chain) ==
    <<"Line ", NumStr(n), ": ", "Tool call failed for ", server, "/", tool, ". ",
      "Args used: ">> \o DumpArgs(call_args) \o <<". ", "Error: ">>
        \o UnwrapRoot(chain)

(***************************************************************************)
(* The engine's configuration.                                             *)
(***************************************************************************)
ALLOWED_COMMANDS ==
    <<"grep", "jq", "sort", "uniq", "cut", "sed", "awk", "wc", "head", "tail",
      "tr", "date", "bc", "paste", "shuf", "join", "sleep">>
DEFAULT_TIMEOUT == 30

Range(f) == { f[i] : i \in DOMAIN f }

\* validate_command: ok, or the message of the ValueError
ValidateAny(cmd, allowed) == [ok |-> TRUE, msg |-> <<>>]
ValidateCommand(cmd, allowed) ==
    IF cmd = "" THEN [ok |-> FALSE, msg |-> <<"Empty command">>]
    ELSE IF cmd \notin Range(allowed)
        THEN [ok |-> FALSE,
              msg |-> <<"Command '", cmd, "' is not allowed. ", "Allowed commands: ">>
                        \o Join(<<", ">>, [i \in DOMAIN allowed |-> <<allowed[i]>>])]
    ELSE [ok |-> TRUE, msg |-> <<>>]

\* _bwrap_prefix
BwrapPrefix(inContainer) ==
    IF inContainer THEN <<>>
    ELSE <<"bwrap", "--unshare-all", "--new-session", "--die-with-parent",
           "--dir", "/", "--chmod", "0555", "/", "--proc", "/proc", "--dev", "/dev",
           "--tmpfs", "/tmp", "--setenv", "PATH", "/usr/bin:/bin", "--chdir", "/tmp",
           "--ro-bind", "/usr", "/usr", "--ro-bind", "/bin", "/bin",
           "--ro-bind", "/lib", "/lib", "--ro-bind", "/lib64", "/lib64">>

\* cmd_list
CmdList(inContainer, cmd, cmd_args) ==
    IF BwrapPrefix(inContainer) # <<>>
        THEN BwrapPrefix(inContainer) \o <<"--", cmd>> \o cmd_args
        ELSE <<cmd>> \o cmd_args

\* str() of a number of seconds, a float (CommandStage.timeout,
\* DEFAULT_TIMEOUT = 30.0)
SecsStr(t) == IF t = 30 THEN "30.0" ELSE NumStr(t) \o ".0"

BadTimeoutMsg(t) == <<"timeout must be positive, got ", SecsStr(t)>>
TimedOutMsg(cmd, t) == <<"Command '", cmd, "' timed out after ", SecsStr(t), " seconds">>
ExitFailedMsg(cmd, rc, stderr) ==
    <<"Command '", cmd, "' failed with exit code ", NumStr(rc), ". ", "Stderr: ">>
        \o Strip(stderr)

\* the two wrappers of execute_pipeline
StageFailedMsg(i, kind, inner) ==
    <<"Stage ", NumStr(i), " (">> \o kind \o <<") failed: ">> \o inner
PipelineFailedMsg(inner) == <<"Pipeline execution failed: ">> \o inner

(***************************************************************************)
(* Pipeline stages (src/models.py).                                        *)
(***************************************************************************)
NoTimeout == [given |-> FALSE, secs |-> 0]
Timeout(t) == [given |-> TRUE, secs |-> t]

CommandStage(command, cmd_args, for_each, timeout) ==
    [type |-> "command", command |-> command, cmd_args |-> cmd_args,
     for_each |-> for_each, timeout |-> timeout,
     server |-> "", name |-> "", args |-> EmptyDict, chars |-> 0]

ToolStage(server, name, args, for_each) ==
    [type |-> "tool", command |-> "", cmd_args |-> <<>>,
     for_each |-> for_each, timeout |-> NoTimeout,
     server |-> server, name |-> name, args |-> args, chars |-> 0]

PreviewStage(chars) ==
    [type |-> "preview", command |-> "", cmd_args |-> <<>>,
     for_each |-> FALSE, timeout |-> NoTimeout,
     server |-> "", name |-> "", args |-> EmptyDict, chars |-> chars]

\* what the models accept: min_length=1 on name, server and command, gt=0
\* on chars; timeout is "float | None" with no constraint on its value
ValidStage(stage) ==
    CASE stage.type = "tool" -> stage.name # "" /\ stage.server # ""
      [] stage.type = "command" -> stage.command # ""
      [] stage.type = "preview" -> stage.chars > 0
      [] OTHER -> FALSE

\* caller-provided args of a tool stage
ArgDicts == { [k \in ks |-> ValA] : ks \in SUBSET {"k", "input"} }

(***************************************************************************)
(* Streams between stages.  stream[j] is what stage j produced and stage   *)
(* j+1 consumes; stream[0] is the upstream of the first stage.             *)
(*   kind = "list"  : iter([...]) over `chunks`                            *)
(*   kind = "input" : an iterable supplied by the caller of tool_stage,    *)
(*                    which delivers `text` in `nleft` more chunks         *)
(*   kind = "gen"   : the generator made by shell_stage                    *)
(***************************************************************************)
NoExit == [timed_out |-> FALSE, rc |-> 0, stdout |-> <<>>, stderr |-> <<>>]
NoStream ==
    [kind |-> "none", chunks |-> <<>>, text |-> <<>>, nleft |-> 0,
     st |-> "", buffer |-> <<>>, out |-> <<>>, eof |-> FALSE, line |-> <<>>,
     exit |-> NoExit]
ListStream(chunks) == [NoStream EXCEPT !.kind = "list", !.chunks = chunks]
InputStream(text, n) == [NoStream EXCEPT !.kind = "input", !.text = text, !.nleft = n]
GenStream == [NoStream EXCEPT !.kind = "gen", !.st = "new"]

NoRet == [k |-> "none", v |-> <<>>]
NoFault == [stage |-> 0, cause |-> "none"]
NoResult == ResultOf(FALSE, <<>>, <<>>)

VARIABLES
    pipeline,       \* the argument of execute_pipeline
    allowed_commands, \* self.allowed_commands
    hasBatch,       \* self.batch_tool_caller is set
    in_container,   \* self.in_container
    idx,            \* 1-based position of the stage being dispatched
    pc,             \* where execute_pipeline / tool_stage stands
    stream,         \* the streams between the stages
    cur,            \* the stream (or consumer) that is running
    mode,           \* "call": cur was asked for a chunk; "ret": cur got `ret`
    ret,            \* what the stream below handed up
    buffer,         \* tool_stage for_each: buffer
    line_num,       \* tool_stage for_each: line_num
    all_call_args,  \* tool_stage for_each: all_call_args
    input_data,     \* the text collected by "".join(upstream)
    call_k,         \* for_each: 1-based position of the next call
    batch_results,  \* batch_call_tool: results
    results,        \* tool_stage for_each: results
    tool_result,    \* what tool_stage returned
    exc,            \* message of the exception being raised
    callLog,        \* the calls issued to the remote side, in order
    spawnLog,       \* the child processes spawned, in order
    alive,          \* stages whose child process is neither reaped nor waited for
    output,         \* what execute_pipeline returned
    fault,          \* the stage whose code raised first, and why
    emitted,        \* per stream, the chunks it has handed to its consumer
    workload,       \* what ToolHive reports for the workload named by the stage
    batch,          \* batch_call_tool: sessions opened, the open session, the
                    \* call in flight and the exception chain it raised
    upstream_text   \* the whole text of stream[0] as first supplied

\* the state of the engine and of the callers wired to it
pipeVars == <<pipeline, allowed_commands, hasBatch, in_container, emitted, idx, pc, stream, cur, mode, ret,
          buffer, line_num, all_call_args, input_data, call_k, batch_results,
          results, tool_result, exc, callLog, spawnLog, alive, output, fault,
          upstream_text, workload, batch>>

\* the state of the registry clients (src/toolhive_client.py, src/mcp_client.py)
VARIABLES
    discovered_host, \* toolhive_client._discovered_host
    discovered_port, \* toolhive_client._discovered_port
    env_host,        \* os.environ["TOOLHIVE_HOST"], NoHost when unset
    disc,            \* per concurrent caller, its invocation of discover_toolhive*
    ndisc,           \* invocations of discover_toolhive* started so far
    first_cached     \* the first (host, port) stored in the cache

discVars == <<discovered_host, discovered_port, env_host, disc, ndisc, first_cached>>

VARIABLES
    running_in_docker, \* os.getenv("RUNNING_IN_DOCKER") == "1"
    registry,          \* what GET /api/v1beta/workloads of the registry answers
    remote,            \* per workload of the registry, how its server behaves
    inv                \* the running invocation of a function of mcp_client

regVars == <<running_in_docker, registry, remote, inv>>

\* the construction of a ShellEngine and its list_available_commands
VARIABLES
    given_commands,  \* the allowed_commands argument of ShellEngine(...)
    listed,          \* the list a caller got from list_available_commands()
    selection        \* the client each function of mcp_client opened for a workload

apiVars == <<given_commands, listed, selection>>

clientVars == <<discVars, regVars, apiVars>>

vars == <<pipeVars, clientVars>>

(***************************************************************************)
(* Discovery of the registry (src/toolhive_client.py): values.             *)
(* A host is a string and a port an integer; None is NoHost / NoPort.      *)
(***************************************************************************)
MaxDiscoveries == 3   \* most invocations of discover_toolhive* in one run
MaxWorkloads == 2     \* most workloads in the registry's answer
MaxTicks == 3         \* longest wait for a remote side that is followed

NoHost == "None"
NoPort == 0 - 1
NoPair == <<NoHost, NoPort>>
DEFAULT_HOST == "127.0.0.1"
DEFAULT_PORT == 8080
DOCKER_HOST == "host.docker.internal"

\* truth value of an optional host or port, as "if x" and "x or y" take it
TruthyHost(h) == h # NoHost /\ h # ""
TruthyPort(p) == p # NoPort /\ p # 0
HostOr(a, b) == IF TruthyHost(a) THEN a ELSE b
PortOr(a, b) == IF TruthyPort(a) THEN a ELSE b

\* the two tasks of the process that may be inside discovery together
Callers == {1, 2}

NoDiscovery ==
    [pc |-> "idle", n |-> 0, host |-> NoHost, port |-> NoPort, attempt |-> 0,
     cands |-> <<>>, probes |-> 0, scans |-> 0, result |-> NoPair, err |-> "",
     discovers |-> FALSE]

\* no function of mcp_client has been called
NoInv ==
    [fn |-> "none", pc |-> "idle", host |-> NoHost, workloads |-> <<>>,
     tasks |-> <<>>, order |-> <<>>, result |-> <<>>, err |-> <<>>,
     name |-> "", nargs |-> 0, target |-> 0, k |-> 0, opened |-> 0, open |-> 0,
     clock |-> 0]

RegIdle ==
    /\ running_in_docker = FALSE
    /\ registry = [ok |-> TRUE, workloads |-> <<>>]
    /\ remote = <<>>
    /\ inv = NoInv

DiscIdle ==
    /\ discovered_host = NoHost /\ discovered_port = NoPort
    /\ env_host = NoHost
    /\ disc = [c \in Callers |-> NoDiscovery]
    /\ ndisc = 0
    /\ first_cached = NoPair

\* an optional list: None, or a list
NoList == [some |-> FALSE, alias |-> FALSE, v |-> <<>>]
SomeList(v) == [some |-> TRUE, alias |-> FALSE, v |-> v]

\* the engine was constructed without allowed_commands and nobody has asked
\* for the list
NoSelection == [proxy_mode |-> "", transport_type |-> "", by |-> <<>>]

ApiIdle == given_commands = NoList /\ listed = NoList /\ selection = NoSelection

\* nothing of the registry clients is running
ClientIdle ==
    /\ discovered_host = NoHost /\ discovered_port = NoPort
    /\ env_host = NoHost
    /\ disc = [c \in Callers |-> NoDiscovery]
    /\ ndisc = 0
    /\ first_cached = NoPair
    /\ RegIdle
    /\ ApiIdle

Stage == pipeline[idx]

engineVars == <<pipeline, allowed_commands, hasBatch, in_container, upstream_text,
                workload>>
toolLocals == <<buffer, line_num, all_call_args, input_data, call_k,
                batch_results, results>>
procVars == <<spawnLog, alive>>

\* the running frame asks the stream below it for its next chunk
Request(j) == cur' = j - 1 /\ mode' = "call" /\ ret' = NoRet
\* stream j hands r to its consumer
Handover(j, r) == cur' = j + 1 /\ mode' = "ret" /\ ret' = r
\* the same, for a stream that a stage of the pipeline produced
Deliver(j, r) ==
    /\ Handover(j, r)
    /\ emitted' = IF r.k = "chunk" THEN [emitted EXCEPT ![j] = Append(@, r.v)]
                                   ELSE emitted

(***************************************************************************)
(* Iterators that are not generators.                                      *)
(***************************************************************************)
\* next() on iter([...])
ListNext ==
    /\ mode = "call" /\ cur \in DOMAIN stream /\ stream[cur].kind = "list"
    /\ IF stream[cur].chunks # <<>>
          THEN /\ Deliver(cur, [k |-> "chunk", v |-> Head(stream[cur].chunks)])
               /\ stream' = [stream EXCEPT ![cur].chunks = Tail(@)]
          ELSE /\ Deliver(cur, [k |-> "stop", v |-> <<>>])
               /\ UNCHANGED stream
    /\ UNCHANGED <<engineVars, toolLocals, procVars, idx, pc, tool_result, exc,
                   callLog, output, fault>>
    /\ UNCHANGED batch
    /\ UNCHANGED clientVars

\* next() on the iterable given to tool_stage by its caller
InputNext ==
    /\ mode = "call" /\ cur \in DOMAIN stream /\ stream[cur].kind = "input"
    /\ IF stream[cur].nleft = 0
          THEN /\ Handover(cur, [k |-> "stop", v |-> <<>>])
               /\ UNCHANGED stream
          ELSE \E cut \in 0..Len(stream[cur].text) :
               /\ stream[cur].nleft = 1 => cut = Len(stream[cur].text)
               /\ Handover(cur, [k |-> "chunk", v |-> SubSeq(stream[cur].text, 1, cut)])
               /\ stream' = [stream EXCEPT
                    ![cur].text = SubSeq(@, cut + 1, Len(@)),
                    ![cur].nleft = @ - 1]
    /\ UNCHANGED <<emitted, engineVars, toolLocals, procVars, idx, pc, tool_result, exc,
                   callLog, output, fault>>
    /\ UNCHANGED batch
    /\ UNCHANGED clientVars

(***************************************************************************)
(* tool_stage.                                                             *)
(***************************************************************************)
FrameState == [buffer |-> buffer, line_num |-> line_num,
               all_call_args |-> all_call_args, failed |-> FALSE, msg |-> <<>>]

\* bookkeeping: the first stage whose own code raised
SetFault(stage, cause) ==
    fault' = IF fault.stage = 0 THEN [stage |-> stage, cause |-> cause] ELSE fault

Raise(stage, cause, msg) == exc' = msg /\ SetFault(stage, cause)

\* entry of tool_stage: the locals, then the first pull from upstream
ToolEnter ==
    /\ pc = "tool_enter"
    /\ buffer' = <<>> /\ line_num' = 0 /\ all_call_args' = <<>>
    /\ input_data' = <<>> /\ call_k' = 1 /\ batch_results' = <<>> /\ results' = <<>>
    /\ pc' = "tool_read"
    /\ Request(idx)
    /\ UNCHANGED <<emitted, engineVars, procVars, idx, stream, tool_result, exc, callLog,
                   output, fault>>
    /\ UNCHANGED batch
    /\ UNCHANGED clientVars

\* a reader that goes to the calls as soon as a chunk has given it a line
ToolReadForEachEager ==
    /\ pc = "tool_read" /\ Stage.for_each /\ cur = idx /\ mode = "ret"
    /\ \/ /\ ret.k = "chunk"
          /\ LET st == SplitBuffer([FrameState EXCEPT !.buffer = buffer \o ret.v],
                                   Stage.args)
             IN  /\ buffer' = st.buffer /\ line_num' = st.line_num
                 /\ all_call_args' = st.all_call_args
                 /\ IF st.failed
                       THEN /\ pc' = "tool_raise"
                            /\ Raise(idx, "foreach_json", st.msg)
                            /\ UNCHANGED <<cur, mode, ret>>
                       ELSE IF st.all_call_args # <<>>
                          THEN /\ pc' = "tool_calls"
                               /\ UNCHANGED <<cur, mode, ret, exc, fault>>
                       ELSE /\ Request(idx)
                            /\ UNCHANGED <<pc, exc, fault>>
       \/ /\ ret.k = "stop"
          /\ LET st == TailBuffer(FrameState, Stage.args)
             IN  /\ line_num' = st.line_num
                 /\ all_call_args' = st.all_call_args
                 /\ IF st.failed
                       THEN /\ pc' = "tool_raise"
                            /\ Raise(idx, "foreach_json", st.msg)
                       ELSE /\ pc' = "tool_calls"
                            /\ UNCHANGED <<exc, fault>>
          /\ UNCHANGED <<buffer, cur, mode, ret>>
       \/ /\ ret.k = "raise"
          /\ pc' = "tool_raise"
          /\ exc' = ret.v
          /\ UNCHANGED <<buffer, line_num, all_call_args, cur, mode, ret, fault>>
    /\ UNCHANGED <<emitted, engineVars, procVars, idx, stream, input_data, call_k,
                   batch_results, results, tool_result, callLog, output>>
    /\ UNCHANGED batch
    /\ UNCHANGED clientVars

\* for_each: one turn of "for chunk in upstream", and what follows the loop
ToolReadForEach ==
    /\ pc = "tool_read" /\ Stage.for_each /\ cur = idx /\ mode = "ret"
    /\ \/ /\ ret.k = "chunk"
          /\ LET st == SplitBuffer([FrameState EXCEPT !.buffer = buffer \o ret.v],
                                   Stage.args)
             IN  /\ buffer' = st.buffer /\ line_num' = st.line_num
                 /\ all_call_args' = st.all_call_args
                 /\ IF st.failed
                       THEN /\ pc' = "tool_raise"
                            /\ Raise(idx, "foreach_json", st.msg)
                            /\ UNCHANGED <<cur, mode, ret>>
                       ELSE /\ Request(idx)
                            /\ UNCHANGED <<pc, exc, fault>>
       \/ /\ ret.k = "stop"
          /\ LET st == TailBuffer(FrameState, Stage.args)
             IN  /\ line_num' = st.line_num
                 /\ all_call_args' = st.all_call_args
                 /\ IF st.failed
                       THEN /\ pc' = "tool_raise"
                            /\ Raise(idx, "foreach_json", st.msg)
                       ELSE /\ pc' = "tool_calls"
                            /\ UNCHANGED <<exc, fault>>
          /\ UNCHANGED <<buffer, cur, mode, ret>>
       \/ /\ ret.k = "raise"
          /\ pc' = "tool_raise"
          /\ exc' = ret.v
          /\ UNCHANGED <<buffer, line_num, all_call_args, cur, mode, ret, fault>>
    /\ UNCHANGED <<emitted, engineVars, procVars, idx, stream, input_data, call_k,
                   batch_results, results, tool_result, callLog, output>>
    /\ UNCHANGED batch
    /\ UNCHANGED clientVars

\* a reader that stops at whatever the upstream hands over first
ToolReadFirstChunk ==
    /\ pc = "tool_read" /\ ~Stage.for_each /\ cur = idx /\ mode = "ret"
    /\ input_data' = Strip(input_data \o ret.v)
    /\ pc' = "tool_call"
    /\ UNCHANGED <<cur, mode, ret, exc>>
    /\ UNCHANGED <<emitted, engineVars, procVars, idx, stream, buffer, line_num,
                   all_call_args, call_k, batch_results, results, tool_result,
                   callLog, output, fault>>
    /\ UNCHANGED batch
    /\ UNCHANGED clientVars

\* normal mode: input_data = "".join(upstream).strip()
ToolReadAll ==
    /\ pc = "tool_read" /\ ~Stage.for_each /\ cur = idx /\ mode = "ret"
    /\ \/ /\ ret.k = "chunk"
          /\ input_data' = input_data \o ret.v
          /\ Request(idx)
          /\ UNCHANGED <<pc, exc>>
       \/ /\ ret.k = "stop"
          /\ input_data' = Strip(input_data)
          /\ pc' = "tool_call"
          /\ UNCHANGED <<cur, mode, ret, exc>>
       \/ /\ ret.k = "raise"
          /\ pc' = "tool_raise"
          /\ exc' = ret.v
          /\ UNCHANGED <<input_data, cur, mode, ret>>
    /\ UNCHANGED <<emitted, engineVars, procVars, idx, stream, buffer, line_num,
                   all_call_args, call_k, batch_results, results, tool_result,
                   callLog, output, fault>>
    /\ UNCHANGED batch
    /\ UNCHANGED clientVars

CallEvent(args, ok, result) ==
    [stage |-> idx, args |-> args, ok |-> ok, result |-> result]

\* normal mode: the single call through tool_caller and the text taken from
\* its result
ToolCallSingle ==
    /\ pc = "tool_call" /\ Len(callLog) < MaxCalls
    /\ LET args == SingleCallArgs(input_data, Stage.args) IN
       \/ \E r \in ToolResults :
            /\ callLog' = Append(callLog, CallEvent(args, TRUE, r))
            /\ tool_result' = ExtractSingle(r)
            /\ pc' = "tool_return"
            /\ UNCHANGED <<exc, fault>>
       \/ \E e \in CallFailures :
            /\ callLog' = Append(callLog, CallEvent(args, FALSE, NoResult))
            /\ pc' = "tool_raise"
            /\ Raise(idx, "tool_call", e)
            /\ UNCHANGED tool_result
    /\ UNCHANGED <<emitted, engineVars, procVars, toolLocals, idx, stream, cur, mode, ret,
                   output>>
    /\ UNCHANGED batch
    /\ UNCHANGED clientVars

\* for_each with a batch caller: await self.batch_tool_caller(server, tool,
\* args_only)
\* the batch caller used whenever there is one
ToolCallBatchAlways ==
    /\ pc = "tool_calls" /\ hasBatch
    /\ pc' = "batch_enter"
    /\ UNCHANGED <<emitted, engineVars, procVars, toolLocals, idx, stream, cur, mode,
                   ret, tool_result, exc, callLog, output, fault, batch>>
    /\ UNCHANGED clientVars

\* for_each with a batch caller and at least one call
ToolCallBatch ==
    /\ pc = "tool_calls" /\ hasBatch /\ all_call_args # <<>>
    /\ pc' = "batch_enter"
    /\ UNCHANGED <<emitted, engineVars, procVars, toolLocals, idx, stream, cur, mode,
                   ret, tool_result, exc, callLog, output, fault, batch>>
    /\ UNCHANGED clientVars

\* arguments_list of batch_call_tool: args_only = [ca[1] for ca in all_call_args]
ArgumentsReversed ==
    [k \in DOMAIN all_call_args |->
        all_call_args[Len(all_call_args) + 1 - k].call_args]
ArgumentsList == [k \in DOMAIN all_call_args |-> all_call_args[k].call_args]

\* batch_call_tool up to the connection: nothing to do for an empty list,
\* else the workload is resolved and one session is opened and initialized
BatchEnter ==
    /\ pc = "batch_enter"
    /\ IF ArgumentsList = <<>>
          THEN /\ pc' = "batch_returned"
               /\ UNCHANGED batch
       ELSE LET v == ResolveWorkload(workload, Stage.server) IN
            IF v.ok
               THEN /\ pc' = "batch_calls"
                    /\ batch' = [batch EXCEPT !.opened = @ + 1, !.open = TRUE]
               ELSE /\ pc' = "batch_raised"
                    /\ batch' = [batch EXCEPT !.chain = <<v.msg>>]
    /\ UNCHANGED <<emitted, engineVars, procVars, toolLocals, idx, stream, cur, mode,
                   ret, tool_result, exc, callLog, output, fault>>
    /\ UNCHANGED clientVars

\* execute_calls: session.call_tool(tool_name, arguments) is sent
BatchCallStart ==
    /\ pc = "batch_calls" /\ batch.open
    /\ batch.inflight = 0 /\ call_k <= Len(ArgumentsList)
    /\ Len(callLog) < MaxCalls
    /\ batch' = [batch EXCEPT !.inflight = call_k]
    /\ UNCHANGED <<emitted, engineVars, procVars, toolLocals, idx, pc, stream, cur,
                   mode, ret, tool_result, exc, callLog, output, fault>>
    /\ UNCHANGED clientVars

\* execute_calls: the awaited call returns its result, or fails or times
\* out; a failure is raised with the progress report and closes the session
BatchCallEnd ==
    /\ pc = "batch_calls" /\ batch.inflight # 0
    /\ LET args == ArgumentsList[call_k] IN
       \/ \E r \in ToolResults :
            /\ callLog' = Append(callLog, CallEvent(args, TRUE, r))
            /\ batch_results' = Append(batch_results, r)
            /\ call_k' = call_k + 1
            /\ batch' = [batch EXCEPT !.inflight = 0]
            /\ UNCHANGED pc
       \/ \E e \in CallFailures :
            /\ callLog' = Append(callLog, CallEvent(args, FALSE, NoResult))
            /\ pc' = "batch_raised"
            /\ batch' = [batch EXCEPT !.inflight = 0, !.open = FALSE,
                            !.chain = << BatchProgressMsg(call_k, Len(ArgumentsList),
                                                          batch_results, e), e >>]
            /\ UNCHANGED <<batch_results, call_k>>
    /\ UNCHANGED <<emitted, engineVars, procVars, idx, stream, cur, mode, ret, buffer,
                   line_num, all_call_args, input_data, results, tool_result,
                   exc, output, fault>>
    /\ UNCHANGED clientVars

\* the loop is over: the session is closed and results is returned
BatchReturn ==
    /\ pc = "batch_calls" /\ batch.inflight = 0
    /\ call_k > Len(ArgumentsList)
    /\ pc' = "batch_returned"
    /\ batch' = [batch EXCEPT !.open = FALSE]
    /\ UNCHANGED <<emitted, engineVars, procVars, toolLocals, idx, stream, cur, mode,
                   ret, tool_result, exc, callLog, output, fault>>
    /\ UNCHANGED clientVars

\* tool_stage, batch path: except Exception around the batch caller
ToolBatchRaised ==
    /\ pc = "batch_raised"
    /\ pc' = "tool_raise"
    /\ Raise(idx, "tool_call", BatchFailedMsg(Stage.server, Stage.name, batch.chain))
    /\ UNCHANGED <<emitted, engineVars, procVars, toolLocals, idx, stream, cur, mode,
                   ret, tool_result, callLog, output, batch>>
    /\ UNCHANGED clientVars

\* for_each without a batch caller: one turn of the loop over all_call_args
ToolCallFallback ==
    /\ pc = "tool_calls" /\ ~(hasBatch /\ all_call_args # <<>>)
    /\ call_k <= Len(all_call_args) /\ Len(callLog) < MaxCalls
    /\ LET args == all_call_args[call_k].call_args IN
       \/ \E r \in ToolResults :
            /\ callLog' = Append(callLog, CallEvent(args, TRUE, r))
            /\ results' = results \o ExtractForEach(r)
            /\ call_k' = call_k + 1
            /\ UNCHANGED <<pc, exc, fault>>
       \/ \E e \in CallFailures :
            /\ callLog' = Append(callLog, CallEvent(args, FALSE, NoResult))
            /\ pc' = "tool_raise"
            /\ Raise(idx, "tool_call",
                     LineFailedMsg(all_call_args[call_k].line_num, Stage.server,
                                   Stage.name, args, <<e>>))
            /\ UNCHANGED <<results, call_k>>
    /\ UNCHANGED <<emitted, engineVars, procVars, idx, stream, cur, mode, ret, buffer,
                   line_num, all_call_args, input_data, batch_results,
                   tool_result, output>>
    /\ UNCHANGED batch
    /\ UNCHANGED clientVars

\* for_each: all calls have returned; return "\n".join(results)
ToolCallsDone ==
    /\ \/ pc = "batch_returned"
       \/ /\ pc = "tool_calls" /\ ~(hasBatch /\ all_call_args # <<>>)
          /\ call_k > Len(all_call_args)
    /\ results' = IF pc = "batch_returned" THEN ResultTexts(batch_results) ELSE results
    /\ tool_result' = Join(<<NL>>, results')
    /\ pc' = "tool_return"
    /\ UNCHANGED <<emitted, engineVars, procVars, idx, stream, cur, mode, ret, buffer,
                   line_num, all_call_args, input_data, call_k, batch_results,
                   exc, callLog, output, fault>>
    /\ UNCHANGED batch
    /\ UNCHANGED clientVars

(***************************************************************************)
(* A direct call of tool_stage(server, tool, args, upstream, for_each).    *)
(***************************************************************************)
LineBodies ==
    { <<>>, <<SP>>, <<"{", "}">>, <<"{", "j:u", "k:u", "}", SP>>,
      <<"[]">>, <<"{", "k:u">> }

RECURSIVE LineLists(_)
LineLists(n) ==
    IF n = 0 THEN { <<>> }
    ELSE LineLists(n - 1) \cup
         { Append(ls, b) : ls \in { l \in LineLists(n - 1) : Len(l) = n - 1 },
                           b \in LineBodies }

UpTexts ==
    { Join(<<NL>>, ls) \o t : ls \in LineLists(MaxLines), t \in { <<>>, <<NL>> } }

InitCommon ==
    /\ idx = 1 /\ ret = NoRet
    /\ buffer = <<>> /\ line_num = 0 /\ all_call_args = <<>> /\ input_data = <<>>
    /\ call_k = 1 /\ batch_results = <<>> /\ results = <<>>
    /\ tool_result = <<>> /\ exc = <<>> /\ callLog = <<>>
    /\ spawnLog = <<>> /\ alive = {} /\ output = <<>> /\ fault = NoFault
    /\ batch = NoBatch
    /\ ClientIdle

InitTool ==
    /\ InitCommon
    /\ hasBatch \in BOOLEAN
    /\ in_container = FALSE
    /\ workload = RunningSse
    /\ allowed_commands = ALLOWED_COMMANDS
    /\ emitted = [j \in 0..1 |-> <<>>]
    /\ \E a \in ArgDicts, fe \in BOOLEAN :
          pipeline = << ToolStage("srv", "tl", a, fe) >>
    /\ upstream_text \in UpTexts
    /\ \E n \in {0, MaxChunks} :
          /\ n = 0 => upstream_text = <<>>
          /\ stream = [j \in 0..1 |->
                IF j = 0 THEN InputStream(upstream_text, n) ELSE NoStream]
    /\ pc = "tool_enter" /\ cur = 1 /\ mode = "ret"

NextTool ==
    \/ ToolEnter
    \/ InputNext
    \/ ToolReadForEach
    \/ ToolReadAll
    \/ ToolCallSingle
    \/ ToolCallBatch
    \/ BatchEnter
    \/ BatchCallStart
    \/ BatchCallEnd
    \/ BatchReturn
    \/ ToolBatchRaised
    \/ ToolCallFallback
    \/ ToolCallsDone

SpecTool == InitTool /\ [][NextTool]_vars

(***************************************************************************)
(* shell_stage: the generator of a command stage.  Nothing of it runs      *)
(* until its consumer asks for the first chunk.                            *)
(*   st = "new"     not started                                           *)
(*        "collect" normal mode, child spawned, joining the upstream       *)
(*        "loop"    for_each, waiting for the next upstream chunk          *)
(*        "lines"   for_each, splitting lines off the buffer               *)
(*        "comm"    child spawned, in proc.communicate                     *)
(*        "exited"  communicate returned (returncode, stdout, stderr)      *)
(*        "expired" communicate raised TimeoutExpired, child still running *)
(*        "emit"    yielding the lines of stdout                           *)
(*        "done"    returned or raised                                     *)
(***************************************************************************)
Gen == stream[cur]
GenStage == pipeline[cur]
IsGen(st) == cur \in DOMAIN stream /\ stream[cur].kind = "gen" /\ stream[cur].st = st

ActualTimeout(stage) ==
    IF stage.timeout.given THEN stage.timeout.secs ELSE DEFAULT_TIMEOUT

\* subprocess.Popen(cmd_list, shell=False, ...); the entry of the log is
\* completed later: by communicate() with the text written to the child's
\* stdin and the time limit, and with how the invocation ended
\* ("killed", "failed": the stage raised, "passed": stdout went downstream)
Popen ==
    /\ Len(spawnLog) < MaxSpawns
    /\ spawnLog' = Append(spawnLog,
            [stage |-> cur,
             cmd_list |-> CmdList(in_container, GenStage.command, GenStage.cmd_args),
             fed |-> FALSE, input |-> <<>>, limit |-> 0, end |-> "running",
             stdout |-> <<>>])
    /\ alive' = alive \cup {cur}

\* the latest child of stage j
LastSpawn(j) ==
    CHOOSE k \in DOMAIN spawnLog :
        /\ spawnLog[k].stage = j
        /\ \A m \in DOMAIN spawnLog : spawnLog[m].stage = j => m <= k

\* what a child can do: run into the time limit, or exit
CmdStdouts == { <<>>, <<NL>>, <<"{", "}", NL, "{", "k:u", "}", NL>> }
CmdStderrs == { <<>>, <<NL>>, <<"err", NL>> }
CmdExits ==
    [timed_out : {FALSE}, rc : {0, 1}, stdout : CmdStdouts, stderr : CmdStderrs]
    \cup { [timed_out |-> TRUE, rc |-> 0, stdout |-> <<>>, stderr |-> <<>>] }

\* the test after communicate(): is this exit an error of the stage?
IsExitFailureAnyNonZero(o) == o.rc # 0
IsExitFailure(o) == o.rc # 0 /\ Strip(o.stdout) = <<>> /\ Strip(o.stderr) # <<>>

\* first next(): the timeout check, then Popen (normal mode) or the first
\* pull from upstream (for_each)
GenStart ==
    /\ mode = "call" /\ IsGen("new")
    /\ IF GenStage.timeout.given /\ GenStage.timeout.secs <= 0
          THEN /\ stream' = [stream EXCEPT ![cur].st = "done"]
               /\ Deliver(cur, [k |-> "raise", v |-> BadTimeoutMsg(GenStage.timeout.secs)])
               /\ SetFault(cur, "bad_timeout")
               /\ UNCHANGED procVars
       ELSE IF GenStage.for_each
          THEN /\ stream' = [stream EXCEPT ![cur].st = "loop"]
               /\ Request(cur)
               /\ UNCHANGED <<procVars, fault, emitted>>
       ELSE /\ Popen
            /\ stream' = [stream EXCEPT ![cur].st = "collect"]
            /\ Request(cur)
            /\ UNCHANGED <<fault, emitted>>
    /\ UNCHANGED <<engineVars, toolLocals, idx, pc, tool_result, exc, callLog, output>>
    /\ UNCHANGED batch
    /\ UNCHANGED clientVars

\* normal mode: input_data = "".join(upstream), with the child already running
GenCollect ==
    /\ mode = "ret" /\ IsGen("collect")
    /\ \/ /\ ret.k = "chunk"
          /\ stream' = [stream EXCEPT ![cur].buffer = @ \o ret.v]
          /\ Request(cur)
          /\ UNCHANGED emitted
       \/ /\ ret.k = "stop"
          /\ stream' = [stream EXCEPT ![cur].st = "comm", ![cur].line = Gen.buffer]
          /\ UNCHANGED <<cur, mode, ret, emitted>>
       \/ /\ ret.k = "raise"
          /\ stream' = [stream EXCEPT ![cur].st = "done"]
          /\ Deliver(cur, ret)
    /\ UNCHANGED <<engineVars, toolLocals, procVars, idx, pc, tool_result, exc,
                   callLog, output, fault>>
    /\ UNCHANGED batch
    /\ UNCHANGED clientVars

\* a loop that joins the whole upstream before it splits any line off
GenLoopCollectAll ==
    /\ mode = "ret" /\ IsGen("loop")
    /\ \/ /\ ret.k = "chunk"
          /\ stream' = [stream EXCEPT ![cur].buffer = @ \o ret.v]
          /\ Request(cur)
          /\ UNCHANGED emitted
       \/ /\ ret.k = "stop"
          /\ stream' = [stream EXCEPT ![cur].eof = TRUE, ![cur].st = "lines"]
          /\ mode' = "call" /\ ret' = NoRet
          /\ UNCHANGED <<cur, emitted>>
       \/ /\ ret.k = "raise"
          /\ stream' = [stream EXCEPT ![cur].st = "done"]
          /\ Deliver(cur, ret)
    /\ UNCHANGED <<engineVars, toolLocals, procVars, idx, pc, tool_result, exc,
                   callLog, output, fault>>
    /\ UNCHANGED batch
    /\ UNCHANGED clientVars

\* for_each: one turn of "for chunk in upstream"
GenLoop ==
    /\ mode = "ret" /\ IsGen("loop")
    /\ \/ /\ ret.k = "chunk"
          /\ stream' = [stream EXCEPT ![cur].buffer = @ \o ret.v, ![cur].st = "lines"]
          /\ mode' = "call" /\ ret' = NoRet
          /\ UNCHANGED <<cur, emitted>>
       \/ /\ ret.k = "stop"
          /\ stream' = [stream EXCEPT ![cur].eof = TRUE, ![cur].st = "lines"]
          /\ mode' = "call" /\ ret' = NoRet
          /\ UNCHANGED <<cur, emitted>>
       \/ /\ ret.k = "raise"
          /\ stream' = [stream EXCEPT ![cur].st = "done"]
          /\ Deliver(cur, ret)
    /\ UNCHANGED <<engineVars, toolLocals, procVars, idx, pc, tool_result, exc,
                   callLog, output, fault>>
    /\ UNCHANGED batch
    /\ UNCHANGED clientVars

\* for_each: the next line of the buffer (blank lines skipped), or the tail
\* once the upstream has ended; a child is spawned for a non-blank line
GenLines ==
    /\ mode = "call" /\ IsGen("lines")
    /\ LET p == FirstNL(Gen.buffer, 1)
           line == SubSeq(Gen.buffer, 1, p - 1)
           rest == SubSeq(Gen.buffer, p + 1, Len(Gen.buffer))
       IN  IF p # 0
              THEN IF Strip(line) = <<>>
                      THEN /\ stream' = [stream EXCEPT ![cur].buffer = rest]
                           /\ UNCHANGED <<procVars, cur, mode, ret, emitted>>
                      ELSE /\ Popen
                           /\ stream' = [stream EXCEPT ![cur].buffer = rest,
                                            ![cur].line = line \o <<NL>>,
                                            ![cur].st = "comm"]
                           /\ UNCHANGED <<cur, mode, ret, emitted>>
           ELSE IF ~Gen.eof
              THEN /\ stream' = [stream EXCEPT ![cur].st = "loop"]
                   /\ Request(cur)
                   /\ UNCHANGED <<procVars, emitted>>
           ELSE IF Strip(Gen.buffer) # <<>>
              THEN /\ Popen
                   /\ stream' = [stream EXCEPT ![cur].buffer = <<>>,
                                    ![cur].line = Gen.buffer \o <<NL>>,
                                    ![cur].st = "comm"]
                   /\ UNCHANGED <<cur, mode, ret, emitted>>
           ELSE /\ stream' = [stream EXCEPT ![cur].st = "done"]
                /\ Deliver(cur, [k |-> "stop", v |-> <<>>])
                /\ UNCHANGED procVars
    /\ UNCHANGED <<engineVars, toolLocals, idx, pc, tool_result, exc, callLog,
                   output, fault>>
    /\ UNCHANGED batch
    /\ UNCHANGED clientVars

\* proc.communicate(input, timeout): the child exits and is reaped, or the
\* time limit expires with the child still running
Communicate ==
    /\ IsGen("comm")
    /\ \E o \in CmdExits :
         /\ spawnLog' = [spawnLog EXCEPT ![LastSpawn(cur)] =
                [@ EXCEPT !.fed = TRUE, !.input = Gen.line,
                          !.limit = ActualTimeout(GenStage),
                          !.end = IF o.timed_out THEN "running" ELSE "exited"]]
         /\ IF o.timed_out
               THEN /\ stream' = [stream EXCEPT ![cur].st = "expired"]
                    /\ UNCHANGED alive
               ELSE /\ stream' = [stream EXCEPT ![cur].st = "exited", ![cur].exit = o]
                    /\ alive' = alive \ {cur}
    /\ UNCHANGED <<engineVars, toolLocals, idx, pc, tool_result, exc, callLog,
                   output, cur, mode, ret, fault, emitted>>
    /\ UNCHANGED batch
    /\ UNCHANGED clientVars

\* except subprocess.TimeoutExpired: proc.kill(); proc.wait(); raise TimeoutError
RaiseBeforeReap == alive
KillAndWait == alive \ {cur}

Expired ==
    /\ IsGen("expired")
    /\ alive' = KillAndWait
    /\ spawnLog' = [spawnLog EXCEPT ![LastSpawn(cur)].end = "killed"]
    /\ stream' = [stream EXCEPT ![cur].st = "done"]
    /\ Deliver(cur, [k |-> "raise",
                     v |-> TimedOutMsg(GenStage.command, ActualTimeout(GenStage))])
    /\ SetFault(cur, "timeout")
    /\ UNCHANGED <<engineVars, toolLocals, idx, pc, tool_result, exc, callLog, output>>
    /\ UNCHANGED batch
    /\ UNCHANGED clientVars

\* the test on (returncode, stdout, stderr) after communicate() returned
CheckExit ==
    /\ IsGen("exited")
    /\ LET o == Gen.exit IN
       IF IsExitFailure(o)
          THEN /\ stream' = [stream EXCEPT ![cur].st = "done", ![cur].exit = NoExit]
               /\ spawnLog' = [spawnLog EXCEPT ![LastSpawn(cur)] =
                                  [@ EXCEPT !.end = "failed", !.stdout = o.stdout]]
               /\ Deliver(cur, [k |-> "raise",
                                v |-> ExitFailedMsg(GenStage.command, o.rc, o.stderr)])
               /\ SetFault(cur, "exit_failure")
          ELSE /\ stream' = [stream EXCEPT ![cur].st = "emit", ![cur].exit = NoExit,
                                           ![cur].out = SplitLinesKeep(o.stdout)]
               /\ spawnLog' = [spawnLog EXCEPT ![LastSpawn(cur)] =
                                  [@ EXCEPT !.end = "passed", !.stdout = o.stdout]]
               /\ mode' = "call" /\ ret' = NoRet
               /\ UNCHANGED <<cur, fault, emitted>>
    /\ UNCHANGED <<engineVars, toolLocals, alive, idx, pc, tool_result, exc, callLog,
                   output>>
    /\ UNCHANGED batch
    /\ UNCHANGED clientVars

\* for output_line in stdout.splitlines(keepends=True): yield output_line
GenEmit ==
    /\ mode = "call" /\ IsGen("emit")
    /\ IF Gen.out # <<>>
          THEN /\ stream' = [stream EXCEPT ![cur].out = Tail(@)]
               /\ Deliver(cur, [k |-> "chunk", v |-> Head(Gen.out)])
       ELSE IF GenStage.for_each
          THEN /\ stream' = [stream EXCEPT ![cur].st = "lines"]
               /\ UNCHANGED <<cur, mode, ret, emitted>>
       ELSE /\ stream' = [stream EXCEPT ![cur].st = "done"]
            /\ Deliver(cur, [k |-> "stop", v |-> <<>>])
    /\ UNCHANGED <<engineVars, toolLocals, procVars, idx, pc, tool_result, exc,
                   callLog, output, fault>>
    /\ UNCHANGED batch
    /\ UNCHANGED clientVars

(***************************************************************************)
(* execute_pipeline.                                                       *)
(***************************************************************************)
\* the engine's own frame is running
Engine == cur' = idx' /\ mode' = "ret" /\ ret' = NoRet

\* except Exception as e: raise RuntimeError("Pipeline execution failed: ...")
FailReturnsText(msg) ==
    /\ pc' = "returned"
    /\ output' = PipelineFailedMsg(msg)
    /\ exc' = exc
Fail(msg) ==
    /\ pc' = "raised"
    /\ exc' = PipelineFailedMsg(msg)
    /\ output' = output

ToolKind(stage) == <<"tool ", stage.server, "/", stage.name>>

\* result += "\n" when result is non-empty and does not end with one
AlwaysNewline(result) == result \o <<NL>>
WithNewline(result) ==
    IF result # <<>> /\ result[Len(result)] # NL THEN result \o <<NL>> ELSE result

\* a command stage: validate, then make (not run) the generator
DispatchCommand ==
    /\ pc = "dispatch" /\ idx <= Len(pipeline) /\ Stage.type = "command"
    /\ LET v == ValidateCommand(Stage.command, allowed_commands) IN
       IF v.ok
          THEN /\ stream' = [stream EXCEPT ![idx] = GenStream]
               /\ idx' = idx + 1
               /\ UNCHANGED <<pc, exc, output, fault>>
          ELSE /\ Fail(StageFailedMsg(idx, <<"command">>, v.msg))
               /\ SetFault(idx, "not_allowed")
               /\ UNCHANGED <<stream, idx>>
    /\ Engine
    /\ UNCHANGED <<engineVars, toolLocals, procVars, tool_result, callLog, emitted>>
    /\ UNCHANGED batch
    /\ UNCHANGED clientVars

\* a tool stage: await self.tool_stage(...)
DispatchTool ==
    /\ pc = "dispatch" /\ idx <= Len(pipeline) /\ Stage.type = "tool"
    /\ pc' = "tool_enter"
    /\ UNCHANGED idx /\ Engine
    /\ UNCHANGED <<engineVars, toolLocals, procVars, stream, tool_result, exc,
                   callLog, output, fault, emitted>>
    /\ UNCHANGED batch
    /\ UNCHANGED clientVars

\* tool_stage returned: the result becomes the next upstream
ToolStageReturn ==
    /\ pc = "tool_return"
    /\ stream' = [stream EXCEPT ![idx] = ListStream(<<WithNewline(tool_result)>>)]
    /\ idx' = idx + 1
    /\ pc' = "dispatch"
    /\ Engine
    /\ UNCHANGED <<engineVars, toolLocals, procVars, tool_result, exc, callLog,
                   output, fault, emitted>>
    /\ UNCHANGED batch
    /\ UNCHANGED clientVars

\* tool_stage raised
ToolStageRaise ==
    /\ pc = "tool_raise"
    /\ Fail(StageFailedMsg(idx, ToolKind(Stage), exc))
    /\ UNCHANGED idx /\ Engine
    /\ UNCHANGED <<engineVars, toolLocals, procVars, stream, tool_result, callLog,
                   fault, emitted>>
    /\ UNCHANGED batch
    /\ UNCHANGED clientVars

\* a preview stage: start collecting the upstream
DispatchPreview ==
    /\ pc = "dispatch" /\ idx <= Len(pipeline) /\ Stage.type = "preview"
    /\ pc' = "preview_read"
    /\ input_data' = <<>>
    /\ Request(idx)
    /\ UNCHANGED <<engineVars, procVars, idx, stream, buffer, line_num,
                   all_call_args, call_k, batch_results, results, tool_result,
                   exc, callLog, output, fault, emitted>>
    /\ UNCHANGED batch
    /\ UNCHANGED clientVars

\* what headson.summarize can do with the collected text
Summaries == { <<"<summary>">> }
SummaryFailures == { <<"headson error">> }
PreviewOutput(preview) ==
    <<"=== PREVIEW (not valid JSON, showing structure only) ===", NL>>
        \o preview \o <<NL, "=== END PREVIEW ===", NL>>

\* input_data = "".join(upstream), then the summary wrapped in the markers
PreviewRead ==
    /\ pc = "preview_read" /\ cur = idx /\ mode = "ret"
    /\ \/ /\ ret.k = "chunk"
          /\ input_data' = input_data \o ret.v
          /\ Request(idx)
          /\ UNCHANGED <<idx, pc, stream, exc, output, fault>>
       \/ /\ ret.k = "stop"
          /\ \/ \E pv \in Summaries :
                  /\ stream' = [stream EXCEPT ![idx] = ListStream(<<PreviewOutput(pv)>>)]
                  /\ idx' = idx + 1
                  /\ pc' = "dispatch"
                  /\ Engine
                  /\ UNCHANGED <<exc, output, fault>>
             \/ \E e \in SummaryFailures :
                  /\ Fail(StageFailedMsg(idx, <<"preview">>, e))
                  /\ SetFault(idx, "preview")
                  /\ UNCHANGED <<stream, idx>> /\ Engine
          /\ UNCHANGED input_data
       \/ /\ ret.k = "raise"
          /\ Fail(StageFailedMsg(idx, <<"preview">>, ret.v))
          /\ UNCHANGED <<stream, idx, input_data, fault>> /\ Engine
    /\ UNCHANGED <<engineVars, procVars, buffer, line_num, all_call_args, call_k,
                   batch_results, results, tool_result, callLog, emitted>>
    /\ UNCHANGED batch
    /\ UNCHANGED clientVars

\* after the last stage: start collecting the final output
DispatchFinal ==
    /\ pc = "dispatch" /\ idx = Len(pipeline) + 1
    /\ pc' = "final_read"
    /\ input_data' = <<>>
    /\ Request(idx)
    /\ UNCHANGED <<engineVars, procVars, idx, stream, buffer, line_num,
                   all_call_args, call_k, batch_results, results, tool_result,
                   exc, callLog, output, fault, emitted>>
    /\ UNCHANGED batch
    /\ UNCHANGED clientVars

\* output += chunk
AccumulateReversed(acc, chunk) == chunk \o acc
Accumulate(acc, chunk) == acc \o chunk

\* output = "".join(upstream); return output
FinalRead ==
    /\ pc = "final_read" /\ cur = idx /\ mode = "ret"
    /\ \/ /\ ret.k = "chunk"
          /\ input_data' = Accumulate(input_data, ret.v)
          /\ Request(idx)
          /\ UNCHANGED <<pc, exc, output>>
       \/ /\ ret.k = "stop"
          /\ output' = input_data
          /\ pc' = "returned"
          /\ UNCHANGED <<input_data, exc, cur, mode, ret>>
       \/ /\ ret.k = "raise"
          /\ Fail(ret.v)
          /\ UNCHANGED <<input_data, cur, mode, ret>>
    /\ UNCHANGED <<engineVars, procVars, idx, stream, buffer, line_num,
                   all_call_args, call_k, batch_results, results, tool_result,
                   callLog, fault, emitted>>
    /\ UNCHANGED batch
    /\ UNCHANGED clientVars

(***************************************************************************)
(* execute_pipeline(pipeline) on an engine built with the default          *)
(* allowlist.                                                              *)
(***************************************************************************)
PipelineStages ==
    { CommandStage("grep", <<"rm">>, fe, NoTimeout) : fe \in BOOLEAN }
    \cup { CommandStage("grep", <<"rm">>, FALSE, Timeout(0)),
            CommandStage("grep", <<"rm">>, TRUE, Timeout(2)),
            CommandStage("rm", <<"-rf", "/">>, FALSE, NoTimeout) }
    \cup { ToolStage("srv", "tl", EmptyDict, FALSE),
            ToolStage("srv", "tl", [k \in {"k"} |-> ValA], TRUE) }
    \cup { PreviewStage(3000) }

RECURSIVE Pipelines(_)
Pipelines(n) ==
    IF n = 0 THEN { <<>> }
    ELSE Pipelines(n - 1) \cup
         { Append(pl, sg) : pl \in { q \in Pipelines(n - 1) : Len(q) = n - 1 },
                            sg \in PipelineStages }

\* the batch caller matters only to a for_each tool stage and the container
\* flag only to a command stage; they are fixed for the other pipelines
Init ==
    /\ InitCommon
    /\ allowed_commands = ALLOWED_COMMANDS
    /\ pipeline \in Pipelines(MaxStages)
    /\ \A i \in DOMAIN pipeline : ValidStage(pipeline[i])
    /\ hasBatch \in
          IF \E i \in DOMAIN pipeline : pipeline[i].type = "tool" /\ pipeline[i].for_each
             THEN BOOLEAN ELSE {TRUE}
    /\ in_container \in
          IF \E i \in DOMAIN pipeline : pipeline[i].type = "command"
             THEN BOOLEAN ELSE {FALSE}
    /\ workload \in
          IF hasBatch /\ \E i \in DOMAIN pipeline :
                            pipeline[i].type = "tool" /\ pipeline[i].for_each
             THEN {RunningSse, Workload(FALSE, "", <<>>, "", "")} ELSE {RunningSse}
    /\ upstream_text = <<>>
    /\ stream = [j \in 0..MaxStages |-> IF j = 0 THEN ListStream(<<>>) ELSE NoStream]
    /\ emitted = [j \in 0..MaxStages |-> <<>>]
    /\ pc = "dispatch" /\ cur = 1 /\ mode = "ret"

Next ==
    \/ DispatchCommand
    \/ DispatchTool
    \/ DispatchPreview
    \/ DispatchFinal
    \/ ToolStageReturn
    \/ ToolStageRaise
    \/ PreviewRead
    \/ FinalRead
    \/ ListNext
    \/ GenStart
    \/ GenCollect
    \/ GenLoop
    \/ GenLines
    \/ Communicate
    \/ Expired
    \/ CheckExit
    \/ GenEmit
    \/ ToolEnter
    \/ ToolReadForEach
    \/ ToolReadAll
    \/ ToolCallSingle
    \/ ToolCallBatch
    \/ BatchEnter
    \/ BatchCallStart
    \/ BatchCallEnd
    \/ BatchReturn
    \/ ToolBatchRaised
    \/ ToolCallFallback
    \/ ToolCallsDone

Spec == Init /\ [][Next]_vars

(***************************************************************************)
(* execute_pipeline called directly, as the tests do, with a list that the *)
(* stage models have not validated: an element may be an object that is    *)
(* none of CommandStage, ToolStage and PreviewStage.                       *)
(***************************************************************************)
\* {"type": "unknown_type", "data": "test"}
UnknownItem ==
    [type |-> "unknown_type", command |-> "", cmd_args |-> <<>>,
     for_each |-> FALSE, timeout |-> NoTimeout,
     server |-> "", name |-> "", args |-> EmptyDict, chars |-> 0]

KnownStage(stage) == stage.type \in {"command", "tool", "preview"}

\* the if/elif chain of the loop has no else: for an element that is an
\* instance of none of the three models the body does nothing, `upstream`
\* stays bound to the same iterator and the loop goes on
DispatchOther ==
    /\ pc = "dispatch" /\ idx <= Len(pipeline) /\ ~KnownStage(Stage)
    /\ stream' = [stream EXCEPT ![idx] = stream[idx - 1], ![idx - 1] = NoStream]
    /\ idx' = idx + 1
    /\ Engine
    /\ UNCHANGED <<engineVars, toolLocals, procVars, pc, tool_result, exc,
                   callLog, output, fault, emitted>>
    /\ UNCHANGED batch
    /\ UNCHANGED clientVars

DirectItems ==
    { ToolStage("srv", "tl", EmptyDict, FALSE), PreviewStage(3000), UnknownItem }

InitDirect ==
    /\ InitCommon
    /\ allowed_commands = ALLOWED_COMMANDS
    /\ \E n \in 1..(MaxStages + 1) : pipeline \in [1..n -> DirectItems]
    /\ \E i \in DOMAIN pipeline : ~KnownStage(pipeline[i])
    /\ hasBatch = TRUE /\ in_container = FALSE
    /\ workload = RunningSse
    /\ upstream_text = <<>>
    /\ stream = [j \in 0..(MaxStages + 1) |-> IF j = 0 THEN ListStream(<<>>) ELSE NoStream]
    /\ emitted = [j \in 0..(MaxStages + 1) |-> <<>>]
    /\ pc = "dispatch" /\ cur = 1 /\ mode = "ret"

NextDirect ==
    \/ DispatchTool
    \/ DispatchPreview
    \/ DispatchOther
    \/ DispatchFinal
    \/ ToolStageReturn
    \/ ToolStageRaise
    \/ PreviewRead
    \/ FinalRead
    \/ ListNext
    \/ ToolEnter
    \/ ToolReadAll
    \/ ToolCallSingle

SpecDirect == InitDirect /\ [][NextDirect]_vars

(***************************************************************************)
(* A direct call of a for_each stage on an upstream that the caller cuts   *)
(* into chunks: tool_stage(..., upstream, for_each=True), or               *)
(* list(shell_stage(cmd, args, upstream, for_each=True)).                  *)
(***************************************************************************)
\* the caller's loop over the generator
Drain ==
    /\ pc = "drain" /\ cur = 2 /\ mode = "ret"
    /\ \/ /\ ret.k = "chunk"
          /\ input_data' = Accumulate(input_data, ret.v)
          /\ Request(2)
          /\ UNCHANGED <<pc, exc>>
       \/ /\ ret.k = "stop"
          /\ pc' = "drained"
          /\ UNCHANGED <<input_data, exc, cur, mode, ret>>
       \/ /\ ret.k = "raise"
          /\ pc' = "drain_raise"
          /\ exc' = ret.v
          /\ UNCHANGED <<input_data, cur, mode, ret>>
    /\ UNCHANGED <<engineVars, procVars, idx, stream, buffer, line_num,
                   all_call_args, call_k, batch_results, results, tool_result,
                   callLog, output, fault, emitted>>
    /\ UNCHANGED batch
    /\ UNCHANGED clientVars

InitForEach ==
    /\ InitCommon
    /\ hasBatch \in BOOLEAN
    /\ in_container = FALSE
    /\ workload = RunningSse
    /\ allowed_commands = ALLOWED_COMMANDS
    /\ emitted = [j \in 0..1 |-> <<>>]
    /\ upstream_text \in UpTexts
    /\ \E n \in {0, MaxChunks} :
          /\ n = 0 => upstream_text = <<>>
          /\ \/ /\ \E a \in {EmptyDict, [k \in {"k"} |-> ValA]} :
                       pipeline = << ToolStage("srv", "tl", a, TRUE) >>
                /\ stream = [j \in 0..1 |->
                      IF j = 0 THEN InputStream(upstream_text, n) ELSE NoStream]
                /\ pc = "tool_enter" /\ cur = 1 /\ mode = "ret"
             \/ /\ hasBatch
                /\ pipeline = << CommandStage("grep", <<"rm">>, TRUE, NoTimeout) >>
                /\ stream = [j \in 0..1 |->
                      IF j = 0 THEN InputStream(upstream_text, n) ELSE GenStream]
                /\ pc = "drain" /\ cur = 1 /\ mode = "call"

NextForEach ==
    \/ InputNext
    \/ ToolEnter
    \/ ToolReadForEach
    \/ ToolCallBatch
    \/ BatchEnter
    \/ BatchCallStart
    \/ BatchCallEnd
    \/ BatchReturn
    \/ ToolBatchRaised
    \/ ToolCallFallback
    \/ ToolCallsDone
    \/ GenStart
    \/ GenLoop
    \/ GenLines
    \/ Communicate
    \/ Expired
    \/ CheckExit
    \/ GenEmit
    \/ Drain

SpecForEach == InitForEach /\ [][NextForEach]_vars

(***************************************************************************)
(* A direct call of batch_call_tool(workload_name, tool_name,              *)
(* arguments_list).                                                        *)
(***************************************************************************)
RECURSIVE ArgLists(_)
ArgLists(n) ==
    IF n = 0 THEN { <<>> }
    ELSE ArgLists(n - 1) \cup
         { Append(l, a) : l \in { m \in ArgLists(n - 1) : Len(m) = n - 1 },
                          a \in {EmptyDict, [k \in {"k"} |-> ValA]} }

InitBatch ==
    /\ idx = 1 /\ ret = NoRet /\ cur = 1 /\ mode = "ret"
    /\ buffer = <<>> /\ line_num = 0 /\ input_data = <<>>
    /\ call_k = 1 /\ batch_results = <<>> /\ results = <<>>
    /\ tool_result = <<>> /\ exc = <<>> /\ callLog = <<>>
    /\ spawnLog = <<>> /\ alive = {} /\ output = <<>> /\ fault = NoFault
    /\ batch = NoBatch
    /\ ClientIdle
    /\ hasBatch = TRUE /\ in_container = FALSE
    /\ allowed_commands = ALLOWED_COMMANDS
    /\ upstream_text = <<>>
    /\ stream = [j \in 0..1 |-> NoStream]
    /\ emitted = [j \in 0..1 |-> <<>>]
    /\ pipeline = << ToolStage("srv", "tl", EmptyDict, TRUE) >>
    /\ workload \in Workloads
    /\ \E l \in ArgLists(MaxCalls) :
          all_call_args = [k \in DOMAIN l |-> [line_num |-> k, call_args |-> l[k]]]
    /\ pc = "batch_enter"

NextBatch ==
    \/ BatchEnter
    \/ BatchCallStart
    \/ BatchCallEnd
    \/ BatchReturn

SpecBatch == InitBatch /\ [][NextBatch]_vars

(***************************************************************************)
(* The fan-out stage and the direct call of batch_call_tool together: the  *)
(* run starts either at the entry of tool_stage or at the entry of         *)
(* batch_call_tool, whose caller then handles the results as tool_stage    *)
(* does.                                                                   *)
(***************************************************************************)
InitFanOut == InitTool \/ InitBatch

SpecFanOut == InitFanOut /\ [][NextTool]_vars

(***************************************************************************)
(* The engine is not running: the state of the specifications that call    *)
(* the registry clients directly.                                          *)
(***************************************************************************)
NoPipeline ==
    /\ idx = 1 /\ ret = NoRet /\ cur = 1 /\ mode = "ret"
    /\ buffer = <<>> /\ line_num = 0 /\ all_call_args = <<>> /\ input_data = <<>>
    /\ call_k = 1 /\ batch_results = <<>> /\ results = <<>>
    /\ tool_result = <<>> /\ exc = <<>> /\ callLog = <<>>
    /\ spawnLog = <<>> /\ alive = {} /\ output = <<>> /\ fault = NoFault
    /\ batch = NoBatch
    /\ hasBatch = TRUE /\ in_container = FALSE
    /\ upstream_text = <<>>
    /\ stream = [j \in 0..1 |-> NoStream]
    /\ emitted = [j \in 0..1 |-> <<>>]
    /\ pipeline = <<>>
    /\ workload = RunningSse
    /\ pc = "idle"

PipeIdle0 == NoPipeline /\ allowed_commands = ALLOWED_COMMANDS
PipeIdle == PipeIdle0 /\ ApiIdle

(***************************************************************************)
(* discover_toolhive_async and discover_toolhive, called by the tasks of   *)
(* one process.  A task runs without interruption from one await to the    *)
(* next; the awaits are the probes, the sleeps between them and the scans. *)
(*   pc = "probe"    in the retry loop over the given port                 *)
(*        "fallback" the given port failed three times, about to scan      *)
(*        "scan"     no port given, scanning the candidate hosts           *)
(*        "returned" / "raised"                                            *)
(***************************************************************************)
\* range(scan_port_start, scan_port_end + 1), as the callers give it
ScanPorts == <<50000, 50001>>

\* what a GET of /api/v1beta/version can come to
ProbeOutcomes == {"ok", "refused", "http_error", "no_version", "not_json", "invalid_url"}

\* the outcomes possible at (host, port): only a real host answers, and
\* only the empty host makes an invalid URL
ProbesAt(host, port) ==
    IF host = "" THEN {"refused", "invalid_url"}
    ELSE IF port <= 0 THEN {"refused"}
    ELSE ProbeOutcomes \ {"invalid_url"}

\* _is_toolhive_available: "ok", or the exception that leaves it.  The
\* except clause turns httpx.HTTPError and OSError (ConnectionError is one)
\* into ConnectionError; the ValueError of response.json() is not caught.
IsToolhiveAvailable(o) ==
    CASE o = "ok" -> "ok"
      [] o = "not_json" -> "JSONDecodeError"
      [] o = "invalid_url" -> "InvalidURL"
      [] OTHER -> "ConnectionError"

\* _scan_for_toolhive_async: the first port of the range whose probe gave a
\* result (gather keeps every exception as a value), NoPort for
\* ConnectionError: nothing found, or the scan timed out
ScanForToolhive(outs, timed_out) ==
    IF timed_out \/ \A i \in DOMAIN ScanPorts : IsToolhiveAvailable(outs[i]) # "ok"
        THEN NoPort
        ELSE ScanPorts[CHOOSE i \in DOMAIN ScanPorts :
                          /\ IsToolhiveAvailable(outs[i]) = "ok"
                          /\ \A j \in DOMAIN ScanPorts :
                                IsToolhiveAvailable(outs[j]) = "ok" => i <= j]

\* what a scan of the range on `host` can return
ScanResults(host) ==
    { ScanForToolhive(outs, t) :
        outs \in [DOMAIN ScanPorts -> ProbesAt(host, ScanPorts[1]) \cap
                                        {"ok", "refused", "not_json", "invalid_url"}],
        t \in BOOLEAN }

\* os.environ.get("TOOLHIVE_HOST", DEFAULT_HOST)
EnvHost == IF env_host = NoHost THEN DEFAULT_HOST ELSE env_host

\* scan_hosts, with the defaults put before the chosen host
ScanHostsDefaultFirst(host) ==
    (IF host # DEFAULT_HOST THEN <<DEFAULT_HOST>> ELSE <<>>)
        \o (IF host # DOCKER_HOST THEN <<DOCKER_HOST>> ELSE <<>>) \o <<host>>

\* scan_hosts
ScanHosts(host) ==
    <<host>> \o (IF host # DEFAULT_HOST THEN <<DEFAULT_HOST>> ELSE <<>>)
             \o (IF host # DOCKER_HOST THEN <<DOCKER_HOST>> ELSE <<>>)

\* "if _discovered_host and _discovered_port"
Cached == TruthyHost(discovered_host) /\ TruthyPort(discovered_port)

\* _discovered_host = host; _discovered_port = port
Store(host, port) ==
    /\ discovered_host' = host
    /\ discovered_port' = port
    /\ first_cached' = IF first_cached = NoPair THEN <<host, port>> ELSE first_cached

NoStore == UNCHANGED <<discovered_host, discovered_port, first_cached>>

Returned(c, d, host, port) ==
    disc' = [disc EXCEPT ![c] = [d EXCEPT !.pc = "returned", !.result = <<host, port>>]]

\* the arguments the callers use
DiscoverArgs ==
    [fn : {"async", "sync_in_loop", "sync"}, host : {NoHost, "h1"},
     port : {NoPort, 9000}, skip : BOOLEAN]

\* a task calls discover_toolhive_async(host, port, ..., skip_port_discovery)
\* or discover_toolhive(...), and runs to its first await or to its return
Discover ==
    \E c \in Callers, a \in DiscoverArgs :
        /\ disc[c].pc \in {"idle", "returned", "raised"}
        /\ ndisc < MaxDiscoveries
        /\ ndisc' = ndisc + 1
        /\ LET host == HostOr(a.host, EnvHost)
               d == [NoDiscovery EXCEPT
                        !.n = ndisc + 1,
                        !.discovers = (~Cached /\ a.fn # "sync_in_loop" /\ ~a.skip)]
           IN  IF Cached
                  THEN /\ Returned(c, d, discovered_host, discovered_port)
                       /\ NoStore
               ELSE IF a.fn = "sync_in_loop"
                  THEN /\ Returned(c, d, host, PortOr(a.port, DEFAULT_PORT))
                       /\ NoStore
               ELSE IF a.skip
                  THEN /\ Returned(c, d, host, PortOr(a.port, DEFAULT_PORT))
                       /\ Store(host, PortOr(a.port, DEFAULT_PORT))
               ELSE IF a.port # NoPort
                  THEN /\ disc' = [disc EXCEPT ![c] =
                              [d EXCEPT !.pc = "probe", !.host = host, !.port = a.port]]
                       /\ NoStore
               ELSE /\ disc' = [disc EXCEPT ![c] =
                           [d EXCEPT !.pc = "scan", !.host = host,
                                     !.cands = ScanHosts(host)]]
                    /\ NoStore
        /\ UNCHANGED <<pipeVars, regVars, apiVars, env_host>>

\* for attempt in range(3): await _is_toolhive_available(host, port)
Probe ==
    \E c \in Callers :
        /\ disc[c].pc = "probe"
        /\ \E o \in ProbesAt(disc[c].host, disc[c].port) :
             LET d == [disc[c] EXCEPT !.probes = @ + 1]
                 r == IsToolhiveAvailable(o)
             IN  IF r = "ok"
                    THEN /\ Returned(c, d, d.host, d.port)
                         /\ Store(d.host, d.port)
                 ELSE IF r = "ConnectionError"
                    THEN /\ disc' = [disc EXCEPT ![c] =
                                IF d.attempt < 2
                                   THEN [d EXCEPT !.attempt = @ + 1]
                                   ELSE [d EXCEPT !.pc = "fallback"]]
                         /\ NoStore
                 ELSE /\ disc' = [disc EXCEPT ![c] = [d EXCEPT !.pc = "raised", !.err = r]]
                      /\ NoStore
        /\ UNCHANGED <<pipeVars, regVars, apiVars, env_host, ndisc>>

\* a fallback that stores the default port when its scan finds nothing
FallbackStoreDefault ==
    \E c \in Callers :
        /\ disc[c].pc = "fallback"
        /\ \E p \in ScanResults(disc[c].host) :
             LET d == [disc[c] EXCEPT !.scans = @ + 1] IN
             IF p # NoPort
                THEN /\ Returned(c, d, d.host, p)
                     /\ Store(d.host, p)
                ELSE /\ disc' = [disc EXCEPT ![c] =
                            [d EXCEPT !.pc = "raised", !.err = "ConnectionError"]]
                     /\ Store(d.host, DEFAULT_PORT)
        /\ UNCHANGED <<pipeVars, regVars, apiVars, env_host, ndisc>>

\* if not found: port = await _scan_for_toolhive_async(host, ...)
Fallback ==
    \E c \in Callers :
        /\ disc[c].pc = "fallback"
        /\ \E p \in ScanResults(disc[c].host) :
             LET d == [disc[c] EXCEPT !.scans = @ + 1] IN
             IF p # NoPort
                THEN /\ Returned(c, d, d.host, p)
                     /\ Store(d.host, p)
                ELSE /\ disc' = [disc EXCEPT ![c] =
                            [d EXCEPT !.pc = "raised", !.err = "ConnectionError"]]
                     /\ NoStore
        /\ UNCHANGED <<pipeVars, regVars, apiVars, env_host, ndisc>>

\* for candidate in scan_hosts: port = await _scan_for_toolhive_async(candidate, ...)
ScanCandidate ==
    \E c \in Callers :
        /\ disc[c].pc = "scan"
        /\ LET candidate == Head(disc[c].cands) IN
           \E p \in ScanResults(candidate) :
             LET d == [disc[c] EXCEPT !.scans = @ + 1, !.cands = Tail(@)] IN
             IF p # NoPort
                THEN /\ Returned(c, d, candidate, p)
                     /\ Store(candidate, p)
             ELSE IF d.cands # <<>>
                THEN /\ disc' = [disc EXCEPT ![c] = d]
                     /\ NoStore
             ELSE /\ disc' = [disc EXCEPT ![c] =
                         [d EXCEPT !.pc = "raised", !.err = "ConnectionError"]]
                  /\ NoStore
        /\ UNCHANGED <<pipeVars, regVars, apiVars, env_host, ndisc>>

InitDiscover ==
    /\ PipeIdle
    /\ RegIdle
    /\ discovered_host = NoHost /\ discovered_port = NoPort
    /\ env_host \in {NoHost, "", "envhost"}
    /\ disc = [c \in Callers |-> NoDiscovery]
    /\ ndisc = 0
    /\ first_cached = NoPair

NextDiscover ==
    \/ Discover
    \/ Probe
    \/ Fallback
    \/ ScanCandidate

SpecDiscover == InitDiscover /\ [][NextDiscover]_vars

(***************************************************************************)
(* ShellEngine(tool_caller, ..., allowed_commands) and the engine's        *)
(* list_available_commands and validate_command, called directly.         *)
(***************************************************************************)
\* the longest list a caller grows the list it got to
MaxListed == 3

\* the commands the callers use
SomeCommands == {"grep", "jq", "rm"}

\* the lists the callers pass as allowed_commands
GivenLists ==
    { <<>> } \cup { <<c>> : c \in SomeCommands }
             \cup { <<c, e>> : c \in SomeCommands, e \in SomeCommands }

\* self.allowed_commands = allowed_commands or ALLOWED_COMMANDS
AllowedOr(given) == IF given.some /\ given.v # <<>> THEN given.v ELSE ALLOWED_COMMANDS

\* return self.allowed_commands.copy(): a new list with the same elements
CopyOf(l) == [some |-> TRUE, alias |-> FALSE, v |-> l]

\* a caller calls list_available_commands()
ListAvailableCommands ==
    /\ listed' = CopyOf(allowed_commands)
    /\ listed' # listed
    /\ UNCHANGED <<pipeVars, discVars, regVars, given_commands, selection>>

\* the caller changes the list it got: appends a command or removes the
\* first; the engine's list changes with it only when it is the same object
MutateListed ==
    /\ listed.some
    /\ \E l \in (IF Len(listed.v) < MaxListed
                    THEN { Append(listed.v, c) : c \in SomeCommands } ELSE {}) \cup
                 (IF listed.v # <<>> THEN {Tail(listed.v)} ELSE {}) :
         /\ listed' = [listed EXCEPT !.v = l]
         /\ allowed_commands' = IF listed.alias THEN l ELSE allowed_commands
    /\ UNCHANGED <<pipeline, hasBatch, in_container, emitted, idx, pc, stream, cur,
                   mode, ret, buffer, line_num, all_call_args, input_data, call_k,
                   batch_results, results, tool_result, exc, callLog, spawnLog,
                   alive, output, fault, upstream_text, workload, batch>>
    /\ UNCHANGED <<discVars, regVars, given_commands, selection>>

InitEngine ==
    /\ NoPipeline
    /\ DiscIdle
    /\ RegIdle
    /\ given_commands \in {NoList} \cup { SomeList(l) : l \in GivenLists }
    /\ allowed_commands = AllowedOr(given_commands)
    /\ listed = NoList
    /\ selection = NoSelection

NextEngine ==
    \/ ListAvailableCommands
    \/ MutateListed

SpecEngine == InitEngine /\ [][NextEngine]_vars

(***************************************************************************)
(* get_workloads (src/mcp_client.py).  A URL is a sequence of tokens:      *)
(* the scheme, the host as written, then the port and the parts of the     *)
(* path; <<>> is a workload without URL.                                   *)
(***************************************************************************)
Url(host, rest) == <<"http://", host>> \o rest

WorkloadUrls ==
    { Url("localhost", <<":8080", "/sse">>),
      Url("127.0.0.1", <<":9000", "/mcp">>),
      Url("LOCALHOST", <<":8080", "/sse">>),
      Url("localhost", <<":8080", "/", "localhost">>),
      Url("w1.example", <<":8080", "/sse">>),
      Url("w1.example", <<"/", "localhost">>),
      <<>> }

\* the hosts the callers pass as the registry host
RegistryHosts == {"127.0.0.1", "localhost", DOCKER_HOST, "h1"}

Loopback == {"localhost", "127.0.0.1"}

\* str.lower() on the host names of the model
Lower(h) == IF h = "LOCALHOST" THEN "localhost" ELSE h

\* urlparse(url).hostname: the host in lower case
Hostname(url) == Lower(url[2])

\* url.replace(old, new): every occurrence, wherever it is in the URL
Replace(url, old, new) == [i \in DOMAIN url |-> IF url[i] = old THEN new ELSE url[i]]

\* the loop of get_workloads over the workloads of the answer
RewriteUrlsAnywhere(workloads, host, docker) ==
    IF host \notin Loopback
       THEN [i \in DOMAIN workloads |->
               LET url == workloads[i].url IN
               IF url # <<>> /\ Hostname(url) \in Loopback
                  THEN [workloads[i] EXCEPT !.url = Replace(url, Hostname(url), host)]
                  ELSE workloads[i]]
       ELSE workloads
RewriteUrls(workloads, host, docker) ==
    IF docker /\ host \notin Loopback
       THEN [i \in DOMAIN workloads |->
               LET url == workloads[i].url IN
               IF url # <<>> /\ Hostname(url) \in Loopback
                  THEN [workloads[i] EXCEPT !.url = Replace(url, Hostname(url), host)]
                  ELSE workloads[i]]
       ELSE workloads

\* get_workloads(host, port): the list it returns; ok = FALSE when the GET
\* fails and the exception leaves the function
GetWorkloadsOf(host) ==
    IF registry.ok
       THEN [ok |-> TRUE, workloads |-> RewriteUrls(registry.workloads, host, running_in_docker)]
       ELSE [ok |-> FALSE, workloads |-> <<>>]

\* the names of the workloads, in the order of the registry's answer
WorkloadNames == <<"w1", "w2", "w3", "w4">>

\* an entry of the registry's answer
Entry(name, status, url, proxy_mode, transport_type) ==
    [name |-> name, status |-> status, url |-> url, proxy_mode |-> proxy_mode,
     transport_type |-> transport_type]

\* a server: the tools it advertises and how it answers the handshake
\* (session.initialize), list_tools and call_tool
Server(tools, init, list, call) ==
    [tools |-> tools, init |-> init, list |-> list, call |-> call]

\* a server that answers everything and advertises no tool
Plain == Server(<<>>, "ok", "ok", "ok")

\* a task awaits get_workloads(host, port)
GetWorkloads ==
    /\ inv.pc = "idle"
    /\ \E host \in RegistryHosts :
         LET r == GetWorkloadsOf(host) IN
         inv' = [inv EXCEPT !.fn = "get_workloads", !.host = host,
                            !.pc = IF r.ok THEN "returned" ELSE "raised",
                            !.result = r.workloads,
                            !.err = IF r.ok THEN <<>> ELSE <<"HTTPStatusError">>]
    /\ UNCHANGED <<pipeVars, discVars, apiVars, running_in_docker, registry, remote>>

\* the caller takes the outcome
Done ==
    /\ inv.pc \in {"returned", "raised"}
    /\ inv' = NoInv
    /\ UNCHANGED <<pipeVars, discVars, apiVars, running_in_docker, registry, remote>>

InitWorkloads ==
    /\ PipeIdle
    /\ DiscIdle
    /\ running_in_docker \in BOOLEAN
    /\ \E n \in 0..MaxWorkloads, ok \in BOOLEAN :
         \E urls \in [1..n -> WorkloadUrls] :
            /\ registry = [ok |-> ok,
                           workloads |-> [i \in 1..n |->
                               Entry(WorkloadNames[i], "running", urls[i], "sse", "")]]
            /\ remote = [i \in 1..n |-> Plain]
    /\ inv = NoInv

NextWorkloads ==
    \/ GetWorkloads
    \/ Done

SpecWorkloads == InitWorkloads /\ [][NextWorkloads]_vars

(***************************************************************************)
(* list_tools_from_server and list_tools (src/mcp_client.py).              *)
(***************************************************************************)
ORCHESTRATOR_TOOLS ==
    {"list_available_shell_commands", "execute_pipeline", "list_all_tools",
     "get_tool_details"}

\* a tool as the server describes it; description "None" is no description
Tool(name, description) == [name |-> name, description |-> description]

AllFour ==
    <<Tool("list_available_shell_commands", "None"), Tool("execute_pipeline", "runs"),
      Tool("list_all_tools", "None"), Tool("get_tool_details", "None")>>
ThreeOfFour ==
    <<Tool("execute_pipeline", "runs"), Tool("list_all_tools", "None"),
      Tool("get_tool_details", "None")>>
Fetch == Tool("fetch", "None")

\* tools_info: tool.description or ""
ToolsInfo(tools) ==
    [k \in DOMAIN tools |->
        Tool(tools[k].name, IF tools[k].description = "None" THEN "" ELSE tools[k].description)]

\* the dictionary list_tools_from_server returns; error <<>> is None
ServerEntry(name, status, tools, error) ==
    [workload |-> name, status |-> status, tools |-> tools, error |-> error]

\* the transport branch taken: proxy_mode "sse", else streamable HTTP by
\* either field, else none
TransportOf(w) ==
    IF w.proxy_mode = "sse" THEN "sse"
    ELSE IF w.proxy_mode = "streamable-http" \/ w.transport_type = "streamable-http"
       THEN "streamable-http"
    ELSE "none"

\* the same branch in get_tool_details_from_server, call_tool and
\* batch_call_tool's execute_calls
TransportOfDetails(w) ==
    IF w.proxy_mode = "sse" THEN "sse"
    ELSE IF w.proxy_mode = "streamable-http" \/ w.transport_type = "streamable-http"
       THEN "streamable-http"
    ELSE "none"

TransportOfCall(w) ==
    IF w.proxy_mode = "sse" THEN "sse"
    ELSE IF w.proxy_mode = "streamable-http" \/ w.transport_type = "streamable-http"
       THEN "streamable-http"
    ELSE "none"

\* the branch with the transport type looked at first
TransportTypeFirst(w) ==
    IF w.transport_type = "streamable-http" THEN "streamable-http"
    ELSE IF w.proxy_mode = "sse" THEN "sse"
    ELSE IF w.proxy_mode = "streamable-http" THEN "streamable-http"
    ELSE "none"

TransportOfBatch(w) ==
    IF w.proxy_mode = "sse" THEN "sse"
    ELSE IF w.proxy_mode = "streamable-http" \/ w.transport_type = "streamable-http"
       THEN "streamable-http"
    ELSE "none"

\* the values the registry gives for proxy_mode and transport_type
TransportModes == {"", "sse", "streamable-http", "stdio"}

ClientFunctions ==
    {"list_tools_from_server", "get_tool_details_from_server", "call_tool",
     "batch_call_tool"}

\* one of the four functions reaches its transport branch for the workload
\* (the workload has a URL, and batch_call_tool has arguments)
SelectClient ==
    /\ \E f \in ClientFunctions \ DOMAIN selection.by :
         LET t == CASE f = "list_tools_from_server" -> TransportOf(selection)
                    [] f = "get_tool_details_from_server" -> TransportOfDetails(selection)
                    [] f = "call_tool" -> TransportOfCall(selection)
                    [] OTHER -> TransportOfBatch(selection)
         IN  selection' = [selection EXCEPT
                              !.by = [g \in DOMAIN selection.by \cup {f} |->
                                         IF g = f THEN t ELSE selection.by[g]]]
    /\ UNCHANGED <<pipeVars, discVars, regVars, given_commands, listed>>

\* a caller is done with the workload and takes another one
NextWorkload ==
    /\ DOMAIN selection.by = ClientFunctions
    /\ \E pm \in TransportModes, tt \in TransportModes :
         selection' = [proxy_mode |-> pm, transport_type |-> tt, by |-> <<>>]
    /\ UNCHANGED <<pipeVars, discVars, regVars, given_commands, listed>>

InitTransport ==
    /\ PipeIdle0
    /\ DiscIdle
    /\ RegIdle
    /\ given_commands = NoList /\ listed = NoList
    /\ \E pm \in TransportModes, tt \in TransportModes :
         selection = [proxy_mode |-> pm, transport_type |-> tt, by |-> <<>>]

NextTransport ==
    \/ SelectClient
    \/ NextWorkload

SpecTransport == InitTransport /\ [][NextTransport]_vars

\* the check on the tool names listed by the server
SelfCheckStrict(name, tools_info) ==
    IF ORCHESTRATOR_TOOLS = { tools_info[k].name : k \in DOMAIN tools_info }
       THEN ServerEntry(name, "skipped", <<>>, <<"Skipped: orchestrator workload (self)">>)
       ELSE ServerEntry(name, "success", tools_info, <<>>)
SelfCheck(name, tools_info) ==
    IF ORCHESTRATOR_TOOLS \subseteq { tools_info[k].name : k \in DOMAIN tools_info }
       THEN ServerEntry(name, "skipped", <<>>, <<"Skipped: orchestrator workload (self)">>)
       ELSE ServerEntry(name, "success", tools_info, <<>>)

\* list_tools_from_server(workload), against a server srv
ListToolsFromServer(w, srv) ==
    IF w.status # "running"
       THEN ServerEntry(w.name, "skipped", <<>>,
                        <<"Workload status is '", w.status, "', not running">>)
    ELSE IF w.url = <<>>
       THEN ServerEntry(w.name, "error", <<>>, <<"No URL provided for workload">>)
    ELSE IF TransportOf(w) = "none"
       THEN ServerEntry(w.name, "unsupported", <<>>,
                        <<"Transport/proxy mode '",
                          IF w.proxy_mode # "" THEN w.proxy_mode ELSE w.transport_type,
                          "' not yet supported">>)
    ELSE CASE srv.list = "ok" -> SelfCheck(w.name, ToolsInfo(srv.tools))
           [] srv.list = "TimeoutError" ->
                ServerEntry(w.name, "error", <<>>, <<"Connection timed out">>)
           [] srv.list = "McpError" ->
                ServerEntry(w.name, "error", <<>>, <<"MCP protocol error: ", "e">>)
           [] OTHER ->
                ServerEntry(w.name, "error", <<>>, <<srv.list, NL, "traceback">>)

\* the workloads of the model: a registry entry without its name, and the
\* server behind it
W(status, url, proxy_mode, transport_type, srv) ==
    [status |-> status, url |-> url, proxy_mode |-> proxy_mode,
     transport_type |-> transport_type, srv |-> srv]
UrlW == Url("w1.example", <<":8080", "/sse">>)
ListedWorkloads ==
    { W("running", UrlW, "sse", "", Server(AllFour, "ok", "ok", "ok")),
      W("running", UrlW, "sse", "", Server(AllFour \o <<Fetch>>, "ok", "ok", "ok")),
      W("running", UrlW, "sse", "", Server(ThreeOfFour \o <<Fetch>>, "ok", "ok", "ok")),
      W("running", UrlW, "streamable-http", "", Server(<<Fetch>> \o AllFour, "ok", "ok", "ok")),
      W("running", UrlW, "", "streamable-http", Server(ThreeOfFour, "ok", "ok", "ok")),
      W("running", UrlW, "sse", "", Server(AllFour, "ok", "TimeoutError", "ok")),
      W("running", UrlW, "streamable-http", "stdio", Server(<<Fetch>>, "ok", "McpError", "ok")),
      W("running", UrlW, "", "stdio", Server(AllFour, "ok", "ok", "ok")),
      W("running", <<>>, "sse", "", Server(AllFour, "ok", "ok", "ok")),
      W("stopped", UrlW, "sse", "", Server(<<Fetch>>, "ok", "ok", "ok")) }

\* a task of gather that has not finished
Pending == [pc |-> "pending", exc |-> FALSE, entry |-> ServerEntry("", "", <<>>, <<>>)]

\* asyncio.gather(*tasks, return_exceptions=True): the outcomes in the order
\* of the tasks, whatever the order in which they finished
GatherByCompletion(tasks, order) == [k \in DOMAIN tasks |-> tasks[order[k]]]
Gather(tasks, order) == [k \in DOMAIN tasks |-> tasks[k]]

\* processed_results
Processed(gathered, workloads) ==
    [i \in DOMAIN gathered |->
        IF gathered[i].exc
           THEN ServerEntry(workloads[i].name, "error", <<>>, gathered[i].entry.error)
           ELSE gathered[i].entry]

\* list_tools(host, port) up to the gather: the workload list is fetched and
\* one task per workload is started
ListTools ==
    /\ inv.pc = "idle"
    /\ \E host \in {DEFAULT_HOST, DOCKER_HOST} :
         LET r == GetWorkloadsOf(host) IN
         inv' = IF ~r.ok
                   THEN [inv EXCEPT !.fn = "list_tools", !.host = host, !.pc = "returned",
                            !.result = <<ServerEntry("toolhive", "error", <<>>,
                                   <<"Failed to get workload list: ", "HTTPStatusError">>)>>]
                ELSE IF r.workloads = <<>>
                   THEN [inv EXCEPT !.fn = "list_tools", !.host = host, !.pc = "returned",
                                    !.result = <<>>]
                ELSE [inv EXCEPT !.fn = "list_tools", !.host = host, !.pc = "gather",
                                 !.workloads = r.workloads,
                                 !.tasks = [i \in DOMAIN r.workloads |-> Pending]]
    /\ UNCHANGED <<pipeVars, discVars, apiVars, running_in_docker, registry, remote>>

\* one of the tasks runs list_tools_from_server to its return
ServerListed ==
    /\ inv.fn = "list_tools" /\ inv.pc = "gather"
    /\ \E i \in DOMAIN inv.tasks :
         /\ inv.tasks[i].pc = "pending"
         /\ inv' = [inv EXCEPT
                !.tasks[i] = [pc |-> "done", exc |-> FALSE,
                              entry |-> ListToolsFromServer(inv.workloads[i], remote[i])],
                !.order = Append(@, i)]
    /\ UNCHANGED <<pipeVars, discVars, apiVars, running_in_docker, registry, remote>>

\* every task has finished: gather returns and list_tools builds its result
Gathered ==
    /\ inv.fn = "list_tools" /\ inv.pc = "gather"
    /\ \A i \in DOMAIN inv.tasks : inv.tasks[i].pc = "done"
    /\ inv' = [inv EXCEPT !.pc = "returned",
                          !.result = Processed(Gather(inv.tasks, inv.order), inv.workloads)]
    /\ UNCHANGED <<pipeVars, discVars, apiVars, running_in_docker, registry, remote>>

InitListTools ==
    /\ PipeIdle
    /\ DiscIdle
    /\ running_in_docker \in BOOLEAN
    /\ \E n \in 0..MaxWorkloads, ok \in BOOLEAN :
         \E ws \in [1..n -> ListedWorkloads] :
            /\ registry = [ok |-> ok,
                           workloads |-> [i \in 1..n |->
                               Entry(WorkloadNames[i], ws[i].status, ws[i].url,
                                     ws[i].proxy_mode, ws[i].transport_type)]]
            /\ remote = [i \in 1..n |-> ws[i].srv]
    /\ inv = NoInv

NextListTools ==
    \/ ListTools
    \/ ServerListed
    \/ Gathered
    \/ Done

SpecListTools == InitListTools /\ [][NextListTools]_vars

(***************************************************************************)
(* call_tool and batch_call_tool (src/mcp_client.py), called directly.     *)
(* Time is counted in ticks: inv.clock is the time the invocation has      *)
(* spent in its current wait for the remote side.                          *)
(*   pc = "init"  the session is open, awaiting session.initialize()       *)
(*        "call"  awaiting wait_for(session.call_tool(...), timeout)       *)
(***************************************************************************)
\* the timeout argument, in ticks
Deadline == 2

\* next((w for w in workloads if w.get("name") == workload_name), None):
\* the position of the first workload of that name, 0 for None
IndexOf(workloads, name) ==
    IF \E i \in DOMAIN workloads : workloads[i].name = name
       THEN CHOOSE i \in DOMAIN workloads :
               /\ workloads[i].name = name
               /\ \A j \in DOMAIN workloads : workloads[j].name = name => i <= j
       ELSE 0

\* the fields call_tool reads from the workload
Lookup(workloads, name) ==
    LET i == IndexOf(workloads, name) IN
    IF i = 0 THEN Workload(FALSE, "", <<>>, "", "")
    ELSE Workload(TRUE, workloads[i].status, workloads[i].url, workloads[i].proxy_mode,
                  workloads[i].transport_type)

CalledWorkloads ==
    { W("running", UrlW, "sse", "", Server(<<Fetch>>, "ok", "ok", "ok")),
      W("running", UrlW, "sse", "", Server(<<Fetch>>, "hang", "ok", "ok")),
      W("running", UrlW, "sse", "", Server(<<Fetch>>, "error", "ok", "ok")),
      W("running", UrlW, "streamable-http", "", Server(<<Fetch>>, "ok", "ok", "hang")),
      W("running", UrlW, "", "streamable-http", Server(<<Fetch>>, "ok", "ok", "error")),
      W("running", UrlW, "", "stdio", Plain),
      W("running", <<>>, "stdio", "", Plain),
      W("running", <<>>, "sse", "", Plain),
      W("stopped", UrlW, "sse", "", Plain),
      W("stopped", <<>>, "", "stdio", Plain) }

\* the workload names the callers ask for
CalledNames == {WorkloadNames[1], WorkloadNames[2], "absent"}

\* call_tool(workload_name, ...) or batch_call_tool(workload_name, ...,
\* arguments_list) up to the opening of the session: the workload list is
\* fetched and the workload is checked
CallTool ==
    /\ inv.pc = "idle"
    /\ \E fn \in {"call_tool", "batch_call_tool"}, name \in CalledNames, n \in 0..2 :
         /\ fn = "call_tool" => n = 1
         /\ LET r == GetWorkloadsOf("h1")
                v == ResolveWorkload(Lookup(r.workloads, name), name)
                i == [inv EXCEPT !.fn = fn, !.host = "h1", !.name = name, !.nargs = n]
            IN  inv' = IF n = 0
                          THEN [i EXCEPT !.pc = "returned"]
                       ELSE IF ~r.ok
                          THEN [i EXCEPT !.pc = "raised", !.err = <<"HTTPStatusError">>]
                       ELSE IF ~v.ok
                          THEN [i EXCEPT !.pc = "raised", !.err = v.msg,
                                         !.workloads = r.workloads]
                       ELSE [i EXCEPT !.pc = "init", !.workloads = r.workloads,
                                      !.target = IndexOf(r.workloads, name),
                                      !.opened = 1, !.open = 1]
    /\ UNCHANGED <<pipeVars, discVars, apiVars, running_in_docker, registry, remote>>

\* time passes while the invocation waits for the remote side
Tick ==
    /\ inv.pc \in {"init", "call"}
    /\ inv.clock < (IF inv.pc = "call" THEN Deadline ELSE MaxTicks)
    /\ inv' = [inv EXCEPT !.clock = @ + 1]
    /\ UNCHANGED <<pipeVars, discVars, apiVars, running_in_docker, registry, remote>>

\* the two "async with" blocks closed only when their body returns
LeaveOnReturnOnly(i) == IF i.pc = "returned" THEN [i EXCEPT !.open = 0] ELSE i

\* the "async with" blocks around the session: control leaves them, by
\* return or by exception, and the session and its transport are closed
LeaveSession(i) == [i EXCEPT !.open = 0]

\* await session.initialize() returns or raises; then the first call is
\* sent under wait_for
Initialized ==
    /\ inv.pc = "init"
    /\ remote[inv.target].init # "hang"
    /\ inv' = IF remote[inv.target].init = "ok"
                 THEN [inv EXCEPT !.pc = "call", !.k = 1, !.clock = 0]
                 ELSE LeaveSession([inv EXCEPT !.pc = "raised", !.err = <<"McpError">>])
    /\ UNCHANGED <<pipeVars, discVars, apiVars, running_in_docker, registry, remote>>

\* the server answers the call before the deadline: call_tool returns the
\* result; batch_call_tool appends it and sends the next call under a new
\* wait_for, or returns the results after the last one
Answered ==
    /\ inv.pc = "call"
    /\ inv.clock < Deadline
    /\ remote[inv.target].call # "hang"
    /\ inv' = IF remote[inv.target].call # "ok"
                 THEN LeaveSession([inv EXCEPT !.pc = "raised", !.err = <<"McpError">>])
              ELSE IF inv.k = inv.nargs
                 THEN LeaveSession([inv EXCEPT !.pc = "returned"])
              ELSE [inv EXCEPT !.k = @ + 1, !.clock = 0]
    /\ UNCHANGED <<pipeVars, discVars, apiVars, running_in_docker, registry, remote>>

\* wait_for's timeout expires: the call is cancelled and TimeoutError raised
TimedOut ==
    /\ inv.pc = "call"
    /\ inv.clock = Deadline
    /\ inv' = LeaveSession([inv EXCEPT !.pc = "raised", !.err = <<"TimeoutError">>])
    /\ UNCHANGED <<pipeVars, discVars, apiVars, running_in_docker, registry, remote>>

InitCall ==
    /\ PipeIdle
    /\ DiscIdle
    /\ running_in_docker = FALSE
    /\ \E n \in 0..MaxWorkloads, ok \in BOOLEAN :
         \E ws \in [1..n -> CalledWorkloads] :
            /\ registry = [ok |-> ok,
                           workloads |-> [i \in 1..n |->
                               Entry(WorkloadNames[i], ws[i].status, ws[i].url,
                                     ws[i].proxy_mode, ws[i].transport_type)]]
            /\ remote = [i \in 1..n |-> ws[i].srv]
    /\ inv = NoInv

NextCall ==
    \/ CallTool
    \/ Tick
    \/ Initialized
    \/ Answered
    \/ TimedOut
    \/ Done

SpecCall == InitCall /\ [][NextCall]_vars

(***************************************************************************)
(* Properties of execute_pipeline.                                         *)
(***************************************************************************)
Disallowed(i) ==
    pipeline[i].type = "command" /\ pipeline[i].command \notin Range(allowed_commands)

AllowlistText == Join(<<", ">>, [i \in DOMAIN allowed_commands |-> <<allowed_commands[i]>>])

\* the argv a child of stage i must have been spawned with
ExpectedArgv(i) ==
    (IF in_container THEN <<>> ELSE BwrapPrefix(FALSE) \o <<"--">>)
        \o <<pipeline[i].command>> \o pipeline[i].cmd_args

KindOf(stage) ==
    IF stage.type = "command" THEN <<"command">>
    ELSE IF stage.type = "tool" THEN <<"tool ", stage.server, "/", stage.name>>
    ELSE <<"preview">>

\* C3: when a stage fails, the error raised by execute_pipeline contains
\* "Stage {i+1} ({kind}) failed" with the position and kind of that stage.
C3_ErrorNamesFailedStage ==
    (pc = "raised" /\ fault.stage # 0) =>
        Contains(exc, <<"Stage ", NumStr(fault.stage), " (">>
                        \o KindOf(pipeline[fault.stage]) \o <<") failed: ">>)

\* C4: when every stage succeeds, the string returned by execute_pipeline is
\* the concatenation, in order, of the chunks the final stage's stream emitted.
C4_OutputIsFinalStream ==
    pc = "returned" => output = Concat(emitted[Len(pipeline)])

C4_Witness ==
    /\ pc = "returned" /\ Len(pipeline) = 2
    /\ Len(emitted[2]) = 2 /\ emitted[2][1] # emitted[2][2]
    /\ output = emitted[2][1] \o emitted[2][2]

(***************************************************************************)
(* Properties of tool_stage, stated on the whole upstream text.            *)
(***************************************************************************)
TheStage == pipeline[1]
UpLines == SplitNL(upstream_text)
\* the 1-based numbers of the non-blank lines among ls, in order
NonBlankOf(ls) ==
    SelectSeq([i \in 1..Len(ls) |-> i], LAMBDA i : Strip(ls[i]) # <<>>)
IsObject(line) == LET r == JsonLoads(line) IN r.ok /\ r.isDict
\* the numbers of the non-blank lines among ls that are not JSON objects
BadOf(ls) == { i \in 1..Len(ls) : Strip(ls[i]) # <<>> /\ ~IsObject(ls[i]) }
NonBlank == NonBlankOf(UpLines)
BadLines == BadOf(UpLines)
FirstBad == LET bad == BadLines IN CHOOSE i \in bad : \A j \in bad : i <= j
TrimmedUp == Strip(upstream_text)

\* d is U united with A, A's value on every key of A
IsMergeOf(d, U, A) ==
    /\ DOMAIN d = DOMAIN U \cup DOMAIN A
    /\ \A k \in DOMAIN A : d[k] = A[k]
    /\ \A k \in DOMAIN U \ DOMAIN A : d[k] = U[k]

\* C5: a for_each tool stage over n non-blank lines that are all JSON objects
\* issues its calls in line order, the k-th with the arguments built from the
\* k-th non-blank line, never more than n; when the stage returns, exactly n
\* calls were issued and the output lists their result texts in call order.
C5_FanOutCallsInOrder ==
    TheStage.for_each =>
        LET ls == UpLines
            nb == NonBlankOf(ls)
        IN  BadOf(ls) = {} =>
              /\ Len(callLog) <= Len(nb)
              /\ \A k \in 1..Len(callLog) :
                    IsMergeOf(callLog[k].args, JsonLoads(ls[nb[k]]).dict, TheStage.args)
              /\ pc = "tool_return" =>
                    /\ Len(callLog) = Len(nb)
                    /\ tool_result =
                          Join(<<NL>>, ResultTexts([k \in 1..Len(callLog) |->
                                                       callLog[k].result]))

C5_Witness ==
    /\ pc = "tool_return" /\ TheStage.for_each /\ BadLines = {}
    /\ Len(NonBlank) = 2 /\ Len(callLog) = 2
    /\ callLog[1].args # callLog[2].args
    /\ callLog[1].result # callLog[2].result

\* C6: in for_each mode every non-blank line yields exactly one record of the
\* newline-joined output, whatever the shape of the tool result.
C6_OneRecordPerLine ==
    (pc = "tool_return" /\ TheStage.for_each) => Len(results) = Len(NonBlank)

\* C7: when the upstream (normal mode) or a line (for_each mode) is a JSON
\* object U, the arguments of the issued call are U merged with the caller
\* args A, A winning on every common key.
C7_CallerArgsWin ==
    callLog # <<>> =>
        IF TheStage.for_each
            THEN LET ls == UpLines
                     nb == NonBlankOf(ls)
                 IN  \A k \in 1..Len(callLog) :
                        IsMergeOf(callLog[k].args, JsonLoads(ls[nb[k]]).dict, TheStage.args)
            ELSE LET U == JsonLoads(TrimmedUp)
                 IN  (TrimmedUp # <<>> /\ U.isDict) =>
                        \A k \in 1..Len(callLog) :
                            IsMergeOf(callLog[k].args, U.dict, TheStage.args)

C7_Witness ==
    /\ ~TheStage.for_each /\ Len(callLog) = 1
    /\ JsonLoads(TrimmedUp).isDict
    /\ "k" \in DOMAIN JsonLoads(TrimmedUp).dict /\ "k" \in DOMAIN TheStage.args
    /\ "j" \in DOMAIN JsonLoads(TrimmedUp).dict
    /\ callLog[1].args["k"] = ValA /\ callLog[1].args["j"] = ValU

\* C8: normal mode, upstream not a JSON object: the call arguments are the
\* caller args plus "input" bound to the decoded value, or to the raw trimmed
\* text when it does not decode, unless the caller args already have "input";
\* with an empty trimmed upstream they are the caller args unchanged.
C8_InputBinding ==
    (~TheStage.for_each /\ callLog # <<>>) =>
        LET text == TrimmedUp
            U == JsonLoads(text)
        IN  ~U.isDict =>
              \A k \in 1..Len(callLog) :
                  LET got == callLog[k].args
                      A == TheStage.args
                  IN  IF text = <<>> \/ "input" \in DOMAIN A
                          THEN got = A
                          ELSE /\ DOMAIN got = DOMAIN A \cup {"input"}
                               /\ \A x \in DOMAIN A : got[x] = A[x]
                               /\ got["input"] =
                                    IF U.ok THEN JsonVal(text) ELSE StrVal(text)

C8_Witness ==
    /\ ~TheStage.for_each /\ Len(callLog) = 1
    /\ TrimmedUp = <<"[]">>
    /\ "input" \in DOMAIN TheStage.args
    /\ callLog[1].args["input"] = ValA

\* C9: the output of a normal-mode tool stage is the concatenation of the
\* text payloads of all content items, and str(result) only when there is no
\* text payload.
C9_ConcatOfTexts ==
    (pc = "tool_return" /\ ~TheStage.for_each) =>
        LET r == callLog[Len(callLog)].result IN
        tool_result = IF r.hasContent /\ ItemTexts(r.content) # <<>>
                         THEN Concat(ItemTexts(r.content))
                         ELSE r.repr

\* C10: in for_each mode the first non-blank line that is not a JSON object
\* makes the stage fail with a message citing that line's 1-based number in
\* the upstream, and no call is issued.
C10_BadLineCited ==
    (TheStage.for_each /\ (callLog # <<>> \/ pc \in {"tool_return", "tool_raise"})) =>
        LET bad == BadLines
        IN  bad # {} =>
              /\ pc # "tool_return"
              /\ callLog = <<>>
              /\ pc = "tool_raise" =>
                    /\ SubSeq(exc, 1, 3) =
                          <<"Line ", NumStr(CHOOSE i \in bad : \A j \in bad : i <= j), ": ">>
                    /\ \/ Contains(exc, <<"Invalid JSON in for_each mode. ">>)
                       \/ Contains(exc, <<"Expected JSON object, got ">>)

C10_Witness ==
    /\ pc = "tool_raise" /\ TheStage.for_each
    /\ BadLines # {} /\ FirstBad = 2
    /\ Strip(UpLines[1]) = <<>>
    /\ Contains(exc, <<"Line ", "2">>)

(***************************************************************************)
(* Properties of the line framing of for_each stages.                      *)
(***************************************************************************)
\* the children of the stage that were handed their stdin, in order
FedSpawns == SelectSeq(spawnLog, LAMBDA e : e.fed)

\* C11: however the upstream text S is cut into chunks, a for_each stage
\* hands its per-line handler the non-blank elements of S split on newline,
\* in order and unchanged: the k-th child of a command stage reads the k-th
\* non-blank line (a newline added), the k-th parsed record of a tool stage
\* is the k-th non-blank line with its 1-based number; a stage that ends
\* without failing has handled all of them, a final line without a newline
\* included.
C11_FramingIgnoresChunking ==
    LET ls == UpLines
        nb == NonBlankOf(ls)
    IN  IF TheStage.type = "command"
           THEN /\ Len(spawnLog) <= Len(nb)
                /\ \A k \in DOMAIN spawnLog :
                      spawnLog[k].fed => spawnLog[k].input = ls[nb[k]] \o <<NL>>
                /\ pc = "drained" =>
                      Len(spawnLog) = Len(nb) /\ Len(FedSpawns) = Len(nb)
           ELSE /\ Len(all_call_args) <= Len(nb)
                /\ \A k \in DOMAIN all_call_args :
                      /\ all_call_args[k].line_num = nb[k]
                      /\ IsMergeOf(all_call_args[k].call_args,
                                   JsonLoads(ls[nb[k]]).dict, TheStage.args)
                /\ pc \in {"tool_calls", "tool_return"} =>
                      Len(all_call_args) = Len(nb)
                /\ (pc = "tool_raise" /\ fault.cause = "foreach_json") =>
                      SubSeq(exc, 1, 2) = <<"Line ", NumStr(nb[Len(all_call_args) + 1])>>

\* a line straddles two chunks, after an earlier line was handled, in a text
\* whose last line has no newline
C11_Witness ==
    /\ TheStage.type = "command"
    /\ Len(FedSpawns) = 1
    /\ stream[1].st = "loop" /\ mode = "call" /\ cur = 0
    /\ Strip(stream[1].buffer) # <<>>
    /\ stream[0].text # <<>> /\ Head(stream[0].text) \notin {NL, SP}
    /\ upstream_text[Len(upstream_text)] # NL

(***************************************************************************)
(* Properties of batch_call_tool.                                          *)
(***************************************************************************)
\* C12: batch_call_tool with N >= 1 argument sets never opens more than one
\* session and issues every call on that one session; a call is started only
\* when all the calls before it have returned, the k-th call carrying the
\* k-th argument set; when it returns, one session was opened and is closed
\* again, N calls were issued and the k-th of the N results is the result of
\* the k-th call.
C12_OneSessionSequentialCalls ==
    LET N == Len(all_call_args) IN
    /\ batch.opened <= 1
    /\ (batch.inflight # 0 \/ callLog # <<>>) => batch.opened = 1
    /\ batch.inflight # 0 =>
          /\ batch.open
          /\ batch.inflight = Len(callLog) + 1
          /\ \A k \in DOMAIN callLog : callLog[k].ok
    /\ Len(callLog) <= N
    /\ \A k \in DOMAIN callLog :
          /\ callLog[k].args = all_call_args[k].call_args
          /\ k < Len(callLog) => callLog[k].ok
    /\ (pc = "batch_returned" /\ N >= 1) =>
          /\ batch.opened = 1 /\ ~batch.open
          /\ Len(callLog) = N /\ Len(batch_results) = N
          /\ \A k \in 1..N : callLog[k].ok /\ batch_results[k] = callLog[k].result

C12_Witness ==
    /\ pc = "batch_returned" /\ Len(all_call_args) = 3
    /\ all_call_args[1].call_args # all_call_args[2].call_args
    /\ batch_results[1] # batch_results[2] /\ batch_results[2] # batch_results[3]
    /\ batch.opened = 1

\* the text payloads of the results of the calls that returned, in call order
EarlierTexts ==
    LET RECURSIVE TextsUpTo(_)
        TextsUpTo(k) ==
            IF k = 0 THEN <<>>
            ELSE TextsUpTo(k - 1) \o
                 (IF ~callLog[k].ok THEN <<>>
                  ELSE IF callLog[k].result.hasContent
                          THEN ItemTexts(callLog[k].result.content)
                          ELSE <<callLog[k].result.repr>>)
    IN  TextsUpTo(Len(callLog))

\* C13: when the k-th call of a batch of N fails or times out,
\* batch_call_tool raises an error that reports item k of N, k-1 successful
\* and N-k pending, and that contains the text payloads of the k-1 earlier
\* results; the session is closed and the calls k+1..N are never issued.
C13_BatchFailureReport ==
    (callLog # <<>> /\ ~callLog[Len(callLog)].ok) =>
        LET k == Len(callLog)
            N == Len(all_call_args)
            msg == batch.chain[1]
        IN  /\ pc = "batch_raised"
            /\ batch.inflight = 0 /\ ~batch.open
            /\ Len(batch_results) = k - 1
            /\ (k - 1) + (N - k) + 1 = N
            /\ SubSeq(msg, 1, 12) =
                  <<"Batch tool call failed at item ", NumStr(k), " of ", NumStr(N), ".",
                    NL, "Completed: ", NumStr(k - 1), " successful, ", NumStr(N - k),
                    " pending.", NL>>
            /\ \A j \in 1..Len(EarlierTexts) : Contains(msg, EarlierTexts[j])
            /\ EarlierTexts # <<>> => Contains(msg, Join(<<NL>>, EarlierTexts))

C13_Witness ==
    /\ pc = "batch_raised" /\ Len(all_call_args) = 3 /\ Len(callLog) = 2
    /\ ~callLog[2].ok /\ EarlierTexts = <<TextA, TextB>>
    /\ Contains(batch.chain[1], <<"Batch tool call failed at item ", "2", " of ", "3">>)

\* the calls of the stage that failed
FaultCalls == SelectSeq(callLog, LAMBDA c : c.stage = fault.stage)

\* C14: when a for_each tool stage runs through the batch caller and its k-th
\* call of N fails, the error raised by execute_pipeline contains the
\* progress report: item k of N, the counts of successful and pending calls,
\* and the text payloads of the successful calls.
C14_ProgressSurfaced ==
    (/\ pc = "raised" /\ fault.cause = "tool_call"
     /\ hasBatch /\ pipeline[fault.stage].for_each
     /\ FaultCalls # <<>>) =>
        LET k == Len(FaultCalls)
            N == Len(all_call_args)
        IN  /\ Contains(exc, <<"Batch tool call failed at item ", NumStr(k), " of ",
                               NumStr(N), ".">>)
            /\ Contains(exc, <<"Completed: ", NumStr(k - 1), " successful, ",
                               NumStr(N - k), " pending.">>)
            /\ \A j \in 1..(k - 1) :
                  \A t \in Range(ExtractForEach(FaultCalls[j].result)) : Contains(exc, t)

(***************************************************************************)
(* Properties of the child processes of command stages.                    *)
(***************************************************************************)
\* what the step after communicate() does with an exit `o` when `failing`
\* says whether it is a failure of the stage
ExitHandled(o, failing) ==
    IF failing
        THEN /\ stream'[cur].st = "done"
             /\ ret'.k = "raise"
             /\ Contains(ret'.v, <<"' failed with exit code ", NumStr(o.rc), ". ",
                                   "Stderr: ">> \o Strip(o.stderr))
        ELSE /\ stream'[cur].st = "emit"
             /\ stream'[cur].out = SplitLinesKeep(o.stdout)
             /\ mode' = "call" /\ fault' = fault

\* C15 as stated: an invocation fails the stage exactly when its exit code
\* is non-zero, its stdout is empty and its stderr is non-empty; otherwise
\* no error is raised and the stdout goes downstream.
C15_FailureIffEmptyStdout ==
    [][IsGen("exited") =>
          ExitHandled(Gen.exit, /\ Gen.exit.rc # 0
                                /\ Gen.exit.stdout = <<>>
                                /\ Gen.exit.stderr # <<>>)]_vars

\* C15, amended: an invocation fails the stage exactly when its exit code is
\* non-zero, its stdout is empty or only whitespace and its stderr has text
\* other than whitespace (the trimmed stderr is in the error message);
\* otherwise no error is raised and the stdout goes downstream, line by line.
C15_FailureIffBlankStdout ==
    [][IsGen("exited") =>
          ExitHandled(Gen.exit, /\ Gen.exit.rc # 0
                                /\ Strip(Gen.exit.stdout) = <<>>
                                /\ Strip(Gen.exit.stderr) # <<>>)]_vars

\* an invocation that wrote only a blank line to stdout failed its stage,
\* and another with real output had it passed downstream
C15_Witness ==
    \E i, j \in DOMAIN spawnLog :
        /\ spawnLog[i].end = "passed" /\ Strip(spawnLog[i].stdout) # <<>>
        /\ spawnLog[j].end = "failed" /\ spawnLog[j].stdout = <<NL>>


C17_BadTimeoutRejectedBeforeEngine ==
    \A i \in DOMAIN pipeline :
        pipeline[i].type = "command" /\ pipeline[i].timeout.given
                                     /\ pipeline[i].timeout.secs <= 0
        => /\ ~(pc = "raised" /\ Head(exc) = "Pipeline execution failed: "
                              /\ Contains(exc, <<"timeout must be positive, got ">>))
           /\ \A k \in DOMAIN spawnLog : spawnLog[k].stage # i


(***************************************************************************)
(* Order of the stages' work.                                              *)
(***************************************************************************)
\* C18: stages work strictly in pipeline order: the child processes of two
\* different stages are never alive together, and when a stage spawns a
\* child or issues a tool call, every child of an earlier stage has ended.
C18_NoTwoStagesAliveTogether ==
    /\ Cardinality(alive) <= 1
    /\ \A k, m \in DOMAIN spawnLog :
          k < m => spawnLog[k].stage <= spawnLog[m].stage


C20_SingleCallAfterUpstreamExhausted ==
    [][callLog' # callLog /\ ~Stage.for_each =>
          LET up == stream[idx - 1] IN
          /\ ret.k = "stop"
          /\ up.kind = "list" => up.chunks = <<>>
          /\ up.kind = "gen" => up.st = "done"
          /\ input_data = Strip(Concat(emitted[idx - 1]))
          /\ fault.stage = 0
      ]_vars

\* the second stage called its tool after the command stage before it had
\* handed over two lines and ended
C20_Witness ==
    /\ Len(pipeline) = 2 /\ pipeline[2].type = "tool" /\ ~pipeline[2].for_each
    /\ stream[1].kind = "gen" /\ Len(emitted[1]) >= 2
    /\ \E k \in DOMAIN callLog : callLog[k].stage = 2


(***************************************************************************)
(* The stream a tool stage leaves for the next stage.                      *)
(***************************************************************************)
\* what the stage after a tool stage reads: the chunks of the new upstream
HandedOn == Concat(stream'[idx].chunks)

\* C21 as stated: the stream a tool stage hands on always ends with a
\* newline, one being appended whenever the tool result does not end with one.
C21_StreamEndsWithNewline ==
    [][pc = "tool_return" =>
          /\ HandedOn # <<>> /\ HandedOn[Len(HandedOn)] = NL
          /\ HandedOn = IF tool_result # <<>> /\ tool_result[Len(tool_result)] = NL
                           THEN tool_result ELSE tool_result \o <<NL>>
      ]_vars

\* C21, amended: the stream a tool stage hands on is the tool result, with
\* a newline appended when the result is not empty and does not end with
\* one; an empty result is handed on as the empty text.
C21_NonEmptyStreamEndsWithNewline ==
    [][pc = "tool_return" =>
          /\ stream'[idx].kind = "list"
          /\ tool_result = <<>> => HandedOn = <<>>
          /\ tool_result # <<>> =>
                /\ HandedOn[Len(HandedOn)] = NL
                /\ HandedOn = IF tool_result[Len(tool_result)] = NL
                                 THEN tool_result ELSE tool_result \o <<NL>>
      ]_vars

\* one tool stage handed on a result that already ended with a newline, as
\* it was, and the next one a result that did not, with a newline added
C21_Witness ==
    /\ Len(callLog) = 2 /\ pc = "dispatch" /\ idx = 3
    /\ ~pipeline[1].for_each /\ ~pipeline[2].for_each
    /\ callLog[1].ok /\ ExtractSingle(callLog[1].result) = TextC
    /\ emitted[1] = <<TextC>>
    /\ callLog[2].ok /\ ExtractSingle(callLog[2].result) = TextA
    /\ stream[2].chunks = <<TextA \o <<NL>>>>


(***************************************************************************)
(* Properties of the discovery of the registry.                            *)
(***************************************************************************)
\* C22: the cache is written only by an invocation that returns the pair
\* it writes, and every invocation that starts after a pair was first stored
\* returns that pair at once, with no probe and no scan, whatever its
\* arguments.
C22_CachedPairReturnedEverAfter ==
    [][/\ <<discovered_host', discovered_port'>> # <<discovered_host, discovered_port>>
            => \E c \in Callers :
                  /\ disc'[c].pc = "returned" /\ disc'[c] # disc[c]
                  /\ disc'[c].result = <<discovered_host', discovered_port'>>
       /\ first_cached # NoPair /\ ndisc' = ndisc + 1
            => \E c \in Callers :
                  /\ disc'[c].n = ndisc'
                  /\ disc'[c].pc = "returned"
                  /\ disc'[c].result = first_cached
                  /\ disc'[c].probes = 0 /\ disc'[c].scans = 0
      ]_vars

\* C23: an invocation given a port probes it at most three times; it scans
\* only after three failed probes and then returns what the scan found, or
\* fails because the scan found nothing; it never fails without having
\* scanned; when a probe succeeds it returns the given port unscanned.
C23_ThreeProbesThenScan ==
    \A c \in Callers :
        LET d == disc[c] IN
        d.port # NoPort /\ d.host # "" =>
            /\ d.probes <= 3
            /\ d.scans > 0 => d.probes = 3 /\ d.scans = 1
            /\ d.pc = "returned" =>
                  \/ d.scans = 0 /\ d.result = <<d.host, d.port>>
                  \/ d.scans = 1 /\ d.result[2] \in Range(ScanPorts)
            /\ d.pc = "raised" => d.scans = 1

(***************************************************************************)
(* Properties of the two ways a for_each tool stage issues its calls.      *)
(***************************************************************************)
\* the call arguments the whole upstream text gives, framed in one piece
FanOutArgs ==
    TailBuffer(SplitBuffer([buffer |-> upstream_text, line_num |-> 0,
                            all_call_args |-> <<>>, failed |-> FALSE, msg |-> <<>>],
                           TheStage.args),
               TheStage.args).all_call_args

\* the text payloads of the responses received, in call order
RECURSIVE TextsOfCalls(_)
TextsOfCalls(log) ==
    IF log = <<>> THEN <<>>
    ELSE (IF Head(log).result.hasContent
             THEN ItemTexts(Head(log).result.content)
             ELSE <<Head(log).result.repr>>) \o TextsOfCalls(Tail(log))

\* C28: in a for_each tool stage, with a batch caller or without one, the
\* calls issued are the calls the upstream gives, in order (a prefix of them
\* until the stage ends, cut at the first failed call), and the output
\* returned is the newline-joined text payloads of the responses; on return
\* every call was issued, through one session of the batch caller when there
\* is one and there are calls, through none of its sessions otherwise.
C28_BatchAndFallbackAgree ==
    TheStage.for_each =>
        /\ Len(callLog) <= Len(FanOutArgs)
        /\ \A k \in DOMAIN callLog :
              /\ callLog[k].args = FanOutArgs[k].call_args
              /\ ~callLog[k].ok => k = Len(callLog) /\ pc # "tool_return"
        /\ pc = "tool_return" =>
              /\ Len(callLog) = Len(FanOutArgs)
              /\ tool_result = Join(<<NL>>, TextsOfCalls(callLog))
              /\ batch.opened = IF hasBatch /\ FanOutArgs # <<>> THEN 1 ELSE 0

\* two lines with different arguments answered by different results, without
\* a batch caller
C28_Witness ==
    /\ pc = "tool_return" /\ TheStage.for_each /\ ~hasBatch
    /\ Len(callLog) = 2 /\ batch.opened = 0
    /\ callLog[1].args # callLog[2].args
    /\ callLog[1].result # callLog[2].result
    /\ tool_result # <<>>

\* the same two lines and results through the batch caller
C28_WitnessBatch ==
    /\ pc = "tool_return" /\ TheStage.for_each /\ hasBatch
    /\ Len(callLog) = 2 /\ batch.opened = 1
    /\ callLog[1].args # callLog[2].args
    /\ callLog[1].result # callLog[2].result
    /\ tool_result # <<>>

(***************************************************************************)
(* Properties of the streaming of for_each command stages.                 *)
(***************************************************************************)
\* the part of the upstream text that the stage has pulled so far
Pulled == SubSeq(upstream_text, 1, Len(upstream_text) - Len(stream[0].text))

\* the lines of that part that are complete (their newline has arrived) and
\* not blank, in order
CompleteLines ==
    LET ls == SplitNL(Pulled)
        whole == SubSeq(ls, 1, Len(ls) - 1)
    IN  SelectSeq(whole, LAMBDA l : Strip(l) # <<>>)

\* the stage asks its upstream for a chunk
Asking == cur = 0 /\ mode = "call"

\* the consumer of the stage has the control: it was handed a chunk, the
\* end or an error, and has not asked again
ConsumerHolds == cur = 2

\* C29: when a for_each command stage asks its upstream for a further chunk,
\* every complete non-blank line it has pulled so far has had its child
\* spawned, fed and reaped, and all the output of those children has been
\* handed to the consumer; and while the consumer holds the control without
\* asking again, no chunk is pulled from the upstream and no child is
\* spawned.
C29_ForEachStreamsLazily ==
    /\ [](TheStage.type = "command" /\ Asking =>
            /\ Len(spawnLog) = Len(CompleteLines)
            /\ \A k \in DOMAIN spawnLog :
                  /\ spawnLog[k].input = CompleteLines[k] \o <<NL>>
                  /\ spawnLog[k].end = "passed"
            /\ Concat(emitted[1]) = Concat([k \in DOMAIN spawnLog |-> spawnLog[k].stdout])
            /\ alive = {})
    /\ [][TheStage.type = "command" /\ ConsumerHolds =>
            UNCHANGED <<stream[0], spawnLog, alive>>]_vars

\* the consumer holds the first output while the upstream still has a chunk,
\* with a second line in it, that was not pulled: one child was spawned
C29_Witness ==
    /\ TheStage.type = "command" /\ ConsumerHolds /\ ret.k = "chunk"
    /\ Len(emitted[1]) = 1
    /\ stream[0].nleft > 0 /\ Strip(stream[0].text) # <<>>
    /\ Len(spawnLog) = 1

Listed(i) ==
    /\ inv.workloads[i].url # <<>>
    /\ TransportOf(inv.workloads[i]) # "none"
    /\ remote[i].list = "ok"
AdvertisesAll(i) ==
    ORCHESTRATOR_TOOLS \subseteq { remote[i].tools[k].name : k \in DOMAIN remote[i].tools }

\* C25: for a running workload, list_tools_from_server answers "skipped", with
\* no tools, exactly when the server listed its tools and their names include
\* all four orchestrator tool names; when the names listed include only some
\* of them the answer is "success" with every listed tool, in order, on the
\* SSE and on the streamable-HTTP transport.
C25_SkippedIffAdvertisesAllFour ==
    inv.fn = "list_tools" =>
        \A i \in DOMAIN inv.tasks :
            inv.tasks[i].pc = "done" /\ inv.workloads[i].status = "running" =>
                LET r == inv.tasks[i].entry IN
                /\ r.status = "skipped" <=> Listed(i) /\ AdvertisesAll(i)
                /\ r.status = "skipped" => r.tools = <<>>
                /\ Listed(i) /\ ~AdvertisesAll(i) =>
                      /\ r.status = "success"
                      /\ r.tools = ToolsInfo(remote[i].tools)

\* one listing over SSE that is skipped for advertising the four names and
\* one more, and one over streamable HTTP that advertises three of them and
\* is reported with its tools
C25_Witness ==
    /\ inv.fn = "list_tools" /\ Len(inv.tasks) = 2
    /\ inv.tasks[1].pc = "done" /\ inv.tasks[2].pc = "done"
    /\ TransportOf(inv.workloads[1]) = "sse"
    /\ Len(remote[1].tools) = 5 /\ AdvertisesAll(1)
    /\ inv.tasks[1].entry.status = "skipped"
    /\ TransportOf(inv.workloads[2]) = "streamable-http"
    /\ remote[2].tools = ThreeOfFour
    /\ inv.tasks[2].entry.status = "success"
    /\ Len(inv.tasks[2].entry.tools) = 3

\* C30: list_tools returns one entry per workload of the registry's answer,
\* entry i naming workload i; entry i is what the query of workload i alone
\* gives, whatever the other queries did and in whatever order they
\* finished, and it has status "error" when that query failed; when the
\* workload list cannot be fetched the result is a single entry with status
\* "error".
C30_OneEntryPerWorkloadInOrder ==
    inv.fn = "list_tools" /\ inv.pc = "returned" =>
        IF registry.ok
           THEN /\ Len(inv.result) = Len(registry.workloads)
                /\ \A i \in DOMAIN inv.result :
                      /\ inv.result[i].workload = registry.workloads[i].name
                      /\ inv.result[i] = ListToolsFromServer(inv.workloads[i], remote[i])
                      /\ Listed(i) /\ registry.workloads[i].status = "running"
                            => inv.result[i].status \in {"success", "skipped"}
                      /\ registry.workloads[i].status = "running" /\ ~Listed(i)
                            => inv.result[i].status \in {"error", "unsupported"}
           ELSE /\ Len(inv.result) = 1
                /\ inv.result[1].status = "error"
                /\ inv.result[1].workload = "toolhive"

\* the second workload's query finished first and the first one's failed:
\* the entries are in registry order and the second is a success
C30_Witness ==
    /\ inv.fn = "list_tools" /\ inv.pc = "returned"
    /\ inv.order = <<2, 1>>
    /\ remote[1].list = "TimeoutError"
    /\ inv.result[1].status = "error" /\ inv.result[1].workload = "w1"
    /\ inv.result[2].status = "success" /\ inv.result[2].workload = "w2"

(***************************************************************************)
(* Properties of call_tool and batch_call_tool.                            *)
(***************************************************************************)
Started == inv.fn \in {"call_tool", "batch_call_tool"} /\ registry.ok
Asked == Lookup(registry.workloads, inv.name)
Unsupported(w) ==
    ~(w.proxy_mode = "sse" \/ w.proxy_mode = "streamable-http"
         \/ w.transport_type = "streamable-http")

\* the error of the first check that the workload fails, in the order not
\* found, not running, no URL, unsupported transport; <<>> when it passes all
FirstDefect(w, name) ==
    IF ~w.found THEN <<"Workload '", name, "' not found">>
    ELSE IF w.status # "running"
       THEN <<"Workload '", name, "' is not running (status: ", w.status, ")">>
    ELSE IF w.url = <<>> THEN <<"No URL provided for workload '", name, "'">>
    ELSE IF Unsupported(w)
       THEN <<"Transport/proxy mode '",
              IF w.proxy_mode # "" THEN w.proxy_mode ELSE w.transport_type,
              "' not supported">>
    ELSE <<>>

\* C26 as stated: call_tool and batch_call_tool fail, with no session
\* opened, when the workload is not found, else not running, else without
\* URL, else of an unsupported transport, and the error is that of the
\* first of these checks that fails.
C26_DefectiveWorkloadFailsUnopened ==
    Started /\ FirstDefect(Asked, inv.name) # <<>> =>
        /\ inv.pc = "raised"
        /\ inv.opened = 0
        /\ inv.err = FirstDefect(Asked, inv.name)

\* C26 amended: the same for call_tool and for batch_call_tool with at least
\* one argument dictionary; batch_call_tool with an empty argument list
\* returns the empty list without looking at the workload.
C26_DefectiveWorkloadFailsUnlessNoCalls ==
    /\ Started /\ inv.nargs > 0 /\ FirstDefect(Asked, inv.name) # <<>> =>
          /\ inv.pc = "raised"
          /\ inv.opened = 0
          /\ inv.err = FirstDefect(Asked, inv.name)
    /\ Started /\ inv.nargs = 0 =>
          inv.pc = "returned" /\ inv.opened = 0 /\ inv.result = <<>>

\* a batch call for a workload that is stopped, has no URL and has an
\* unsupported transport fails with the status error alone
C26_Witness ==
    /\ inv.fn = "batch_call_tool" /\ inv.nargs = 2 /\ registry.ok
    /\ Asked.found /\ Asked.status = "stopped" /\ Asked.url = <<>> /\ Unsupported(Asked)
    /\ inv.pc = "raised" /\ inv.opened = 0
    /\ inv.err = <<"Workload '", inv.name, "' is not running (status: ", "stopped", ")">>

\* C27: while an invocation of call_tool or batch_call_tool waits for the
\* remote side, in the handshake or in a call, the time it has waited since
\* that wait began does not exceed the per-call deadline.
C27_EveryWaitBoundedByDeadline ==
    inv.pc \in {"init", "call"} => inv.clock <= Deadline

(***************************************************************************)
(* Properties of the engine's allowlist.                                   *)
(***************************************************************************)
\* C31: an engine constructed with a list L of allowed commands accepts
\* exactly the commands of L, the empty list included, and goes on doing so
\* whatever a caller does to a list it got from list_available_commands.
C31_AllowlistIsGivenList ==
    given_commands.some =>
        /\ allowed_commands = given_commands.v
        /\ \A c \in SomeCommands \cup Range(ALLOWED_COMMANDS) :
              ValidateCommand(c, allowed_commands).ok <=> c \in Range(given_commands.v)

(***************************************************************************)
(* Properties of execute_pipeline on a list holding an unknown item.       *)
(***************************************************************************)
\* C32: a pipeline holding a stage that is none of tool, command and preview
\* fails with an "Unknown pipeline item type" error: the engine never goes
\* past such a stage, never returns an output for such a pipeline, and a
\* failure of that stage carries the message.
C32_UnknownStageFails ==
    \A i \in DOMAIN pipeline :
        ~KnownStage(pipeline[i]) =>
            /\ idx <= i
            /\ pc # "returned"
            /\ (pc = "raised" /\ idx = i) =>
                   Contains(exc, <<"Unknown pipeline item type">>)

(***************************************************************************)
(* Properties of the scan over the candidate hosts.                        *)
(***************************************************************************)
\* chosen host, loopback default, container-host alias, duplicates omitted
CandidateOrder(host) ==
    LET all == <<host, DEFAULT_HOST, DOCKER_HOST>>
        keep == { i \in 1..3 : \A j \in 1..(i - 1) : all[j] # all[i] }
        nth(k) == CHOOSE i \in keep : Cardinality({ j \in keep : j <= i }) = k
    IN  [k \in 1..Cardinality(keep) |-> all[nth(k)]]

\* the discovery of caller c was given no port and went to the scan
Scanning(c) == disc[c].probes = 0 /\ (disc[c].pc = "scan" \/ disc[c].scans > 0)

\* C33: with no port given, discovery scans the candidate hosts one after
\* another in the order chosen host, loopback default, container-host alias,
\* duplicates omitted; it returns the first host of that order whose scan
\* found a port and scans no host after it; it raises a connection error
\* only after the scan of every candidate has failed.
C33_FirstCandidateInOrderWins ==
    \A c \in Callers :
        Scanning(c) =>
            LET d == disc[c]
                hs == CandidateOrder(d.host)
            IN  /\ d.scans <= Len(hs)
                /\ d.pc = "scan" =>
                       /\ d.scans < Len(hs)
                       /\ d.cands = SubSeq(hs, d.scans + 1, Len(hs))
                /\ d.pc = "returned" =>
                       /\ d.result[1] = hs[d.scans]
                       /\ d.result[2] \in Range(ScanPorts)
                /\ d.pc = "raised" =>
                       /\ d.scans = Len(hs)
                       /\ d.err = "ConnectionError"

\* the chosen host failed, the loopback default answered: the alias is not
\* scanned
C33_Witness ==
    \E c \in Callers :
        /\ Scanning(c) /\ disc[c].pc = "returned"
        /\ disc[c].host = "h1" /\ disc[c].scans = 2
        /\ disc[c].result[1] = DEFAULT_HOST

(***************************************************************************)
(* Properties of the choice of the session client.                        *)
(***************************************************************************)
\* the selection as the claim states it
SessionVariant(proxy_mode, transport_type) ==
    IF proxy_mode = "sse" THEN "sse"
    ELSE IF "streamable-http" \in {proxy_mode, transport_type} THEN "streamable-http"
    ELSE "none"

\* C34: the session variant is a function of (proxy_mode, transport_type)
\* only: proxy_mode "sse" selects the event-stream client whatever the
\* transport type, otherwise "streamable-http" in either field selects the
\* chunked-streaming client, every other tuple is unsupported; and
\* list_tools_from_server, get_tool_details_from_server, call_tool and
\* batch_call_tool make the same selection for the same tuple.
C34_SameSelectionEverywhere ==
    \A f \in DOMAIN selection.by :
        /\ selection.by[f] = SessionVariant(selection.proxy_mode, selection.transport_type)
        /\ \A g \in DOMAIN selection.by : selection.by[g] = selection.by[f]

\* all four functions chose the event-stream client for a workload whose
\* transport type says streamable HTTP
C34_Witness ==
    /\ DOMAIN selection.by = ClientFunctions
    /\ selection.proxy_mode = "sse" /\ selection.transport_type = "streamable-http"
    /\ \A f \in ClientFunctions : selection.by[f] = "sse"

(***************************************************************************)
(* Properties of the children at the end of execute_pipeline.              *)
(***************************************************************************)
\* C35: by the time execute_pipeline returns or raises, every child that a
\* command stage spawned has been terminated and reaped: no stage has a
\* living child and no spawned child is still running.
C35_NoChildLeftBehind ==
    pc \in {"returned", "raised"} =>
        /\ alive = {}
        /\ \A k \in DOMAIN spawnLog : spawnLog[k].end # "running"

(***************************************************************************)
(* Properties of the sessions of call_tool and batch_call_tool.            *)
(***************************************************************************)
\* C36: every session opened by call_tool or batch_call_tool is closed
\* before the function returns or raises, on every path; none stays open
\* after the call and none is reused by a later call: an invocation that is
\* inside a session holds exactly one, opened by itself, and one that has
\* returned, raised or not started holds none.
C36_SessionClosedOnEveryExit ==
    inv.fn \in {"none", "call_tool", "batch_call_tool"} =>
        /\ inv.pc \in {"init", "call"} => inv.open = 1 /\ inv.opened = 1
        /\ inv.pc \in {"idle", "returned", "raised"} => inv.open = 0

\* a batch that failed by timeout at its second call, after a session
C36_Witness ==
    /\ inv.fn = "batch_call_tool" /\ inv.pc = "raised"
    /\ inv.err = <<"TimeoutError">> /\ inv.k = 2
    /\ inv.opened = 1 /\ inv.open = 0

(***************************************************************************)
(* Properties of the order of reading and calling in a fan-out stage.      *)
(***************************************************************************)
\* the stage has gone to its remote side: a call was issued or a session of
\* the batch caller was opened
WentRemote == callLog # <<>> \/ batch.opened > 0 \/ batch.open

\* C37: a fan-out tool stage issues no tool call until every upstream line
\* has been read and validated: when the first call is issued, or the batch
\* session opened, the upstream has been pulled to its end, every non-blank
\* line has its entry in the list of calls and no line is invalid; with an
\* invalid line anywhere in the upstream no call is ever made, with a batch
\* caller or without.
C37_NoCallBeforeAllLinesRead ==
    (TheStage.for_each /\ WentRemote) =>
        /\ Pulled = upstream_text
        /\ Len(all_call_args) = Len(NonBlank)
        /\ BadLines = {}

\* the first of two calls goes out, by the fallback, after both lines were
\* read
C37_Witness ==
    /\ TheStage.for_each /\ ~hasBatch
    /\ Len(callLog) = 1 /\ Len(all_call_args) = 2
    /\ Pulled = upstream_text

(***************************************************************************)
(* Properties of the cache after a failed discovery.                       *)
(***************************************************************************)
\* caller c's discovery ends in an error in this step
FailsNow(c) == disc[c].pc # "raised" /\ disc'[c].pc = "raised"

\* caller c enters discover_toolhive_async, directly or through
\* asyncio.run, without skip_port_discovery, in this step, and the cache is
\* unset
CallsNow(c) ==
    /\ disc[c].pc \in {"idle", "returned", "raised"}
    /\ disc'[c].n > disc[c].n
    /\ disc'[c].discovers

DirectBatch == stream[0].kind = "none"

\* no call was issued, and the batch caller opened no session, resolved no
\* workload and failed on none
NothingRemote ==
    /\ callLog = <<>>
    /\ batch = NoBatch
    /\ batch_results = <<>>
    /\ pc \notin {"batch_calls", "batch_raised", "tool_raise"}

\* C39: a fan-out tool stage whose upstream has no non-blank line issues no
\* tool call, never enters the batch caller (so nothing asks the registry
\* and no session is opened) and returns the empty string; and
\* batch_call_tool with an empty argument list returns the empty list
\* without resolving the workload at the registry or opening a session,
\* whatever the workload is.
C39_EmptyFanOutDoesNothing ==
    /\ (~DirectBatch /\ TheStage.for_each /\ NonBlank = <<>>) =>
           /\ NothingRemote
           /\ pc \notin {"batch_enter", "batch_returned"}
           /\ pc = "tool_return" => tool_result = <<>>
    /\ (DirectBatch /\ all_call_args = <<>>) =>
           /\ NothingRemote
           /\ pc # "batch_enter" => batch_results = <<>> /\ results = <<>>

\* a stage with a batch caller has read two blank lines and returned
C39_Witness ==
    /\ ~DirectBatch /\ TheStage.for_each /\ hasBatch
    /\ pc = "tool_return" /\ tool_result = <<>>
    /\ Len(UpLines) >= 2 /\ NonBlank = <<>> /\ upstream_text # <<>>

=============================================================================
